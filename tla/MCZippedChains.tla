---------------------------- MODULE MCZippedChains ----------------------------
(* Model checking of ZippedChains: see MCZippedChains.cfg for the bounds. *)
EXTENDS ZippedChains
=============================================================================
