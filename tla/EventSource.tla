----------------------------- MODULE EventSource -----------------------------
(***************************************************************************)
(* What a reader thread promises to the rest of lsmonitor.  A reader takes *)
(* events from the kernel, numbered 1, 2, 3, ... in the order it takes     *)
(* them, and puts them on the channel it was given.                        *)
(*                                                                         *)
(* The channel always holds a gap-free prefix of that numbering.  While    *)
(* the source runs every event it has taken is eventually delivered.  Once *)
(* its stop flag is up at most one more event gets through: the one whose  *)
(* test of the flag had already been passed.  What else had been taken is  *)
(* dropped.                                                                *)
(***************************************************************************)
EXTENDS Naturals, Sequences

VARIABLES
  taken,      \* how many events the kernel has handed to the reader
  delivered,  \* the event numbers put on the channel, in order
  phase       \* "running", "late" (one more delivery allowed), "closed", "ended"

vars == <<taken, delivered, phase>>

Init ==
  /\ taken = 0
  /\ delivered = <<>>
  /\ phase = "running"

\* A read returns some events; one that was under way may still return late.
Take ==
  /\ phase # "ended"
  /\ taken' \in Nat
  /\ taken' >= taken
  /\ UNCHANGED <<delivered, phase>>

PutNext ==
  /\ Len(delivered) < taken
  /\ delivered' = Append(delivered, Len(delivered) + 1)
  /\ UNCHANGED taken

Deliver == phase = "running" /\ PutNext /\ UNCHANGED phase

DeliverLate == phase = "late" /\ PutNext /\ phase' = "closed"

\* The stop flag goes up.
Stop ==
  /\ phase = "running"
  /\ phase' \in {"late", "closed"}
  /\ UNCHANGED <<taken, delivered>>

\* The reader's function returns or throws: it was told to stop, the device
\* came to its end, or a system call failed.
End ==
  /\ phase \in {"running", "closed"}
  /\ phase' = "ended"
  /\ UNCHANGED <<taken, delivered>>

Next == Take \/ Deliver \/ DeliverLate \/ Stop \/ End

SafeSpec == Init /\ [][Next]_vars

Spec == SafeSpec /\ WF_vars(Deliver)
=============================================================================
