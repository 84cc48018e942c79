----------------------------- MODULE LsprobeEvent -----------------------------
(***************************************************************************)
(* lsp::FileEvent and the evaluator beside it.                             *)
(***************************************************************************)
EXTENDS Evaluation

\* The event of an access: what the kernel module recorded.
lspEvent(a) ==
  [code |-> a.code, pcred |-> [tgid |-> a.pid, uid |-> a.uid, gid |-> a.gid],
   filename |-> a.file, process |-> a.exe]

\* The member that a comparison looks at, with the type it asks of the operand.
lspMember(e, id) ==
  CASE id = "event" -> AsLong(e.code)
    [] id = "file" -> AsString(e.filename)
    [] id = "process" -> AsString(e.process)
    [] id = "pid" -> AsLong(e.pcred.tgid)
    [] id = "uid" -> AsLong(e.pcred.uid)
    [] id = "gid" -> AsLong(e.pcred.gid)

lspCompareLenient(c, e) ==
  LET member == lspMember(e, c.id)
  IN  Truth(c.value.type = member.type /\ (member.of = c.value.of) # (c.op = "NEQ"))

lspCompare(c, e) ==
  LET member == lspMember(e, c.id)
  IN  IF c.value.type = member.type
        THEN Truth((member.of = c.value.of) # (c.op = "NEQ"))
        ELSE "throws"

lspEvaluate(x, e) ==
  LET evaluate[y \in Trees] ==
        CASE y.kind = "bool" -> Truth(y.value)
          [] y.kind = "compare" -> lspCompare(y, e)
          [] y.kind = "not" -> Negate(evaluate[y.arg])
          [] y.kind = "or" -> Until([i \in DOMAIN y.args |-> evaluate[y.args[i]]], "no")
          [] OTHER -> Until([i \in DOMAIN y.args |-> evaluate[y.args[i]]], "yes")
  IN  evaluate[x]
=============================================================================
