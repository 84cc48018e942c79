----------------------------- MODULE MCBroadcast -----------------------------
(***************************************************************************)
(* Model checking of Broadcast: MCBroadcast.cfg checks safety, with four   *)
(* descriptors for three clients, MCBroadcastStop.cfg the stop.  Clients   *)
(* and descriptors are interchangeable, which the safety run uses.         *)
(***************************************************************************)
EXTENDS Broadcast

Symmetry == Permutations(Clients) \union Permutations(Fds)
=============================================================================
