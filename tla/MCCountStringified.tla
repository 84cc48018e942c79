-------------------------- MODULE MCCountStringified --------------------------
(* Model checking of CountStringified: see MCCountStringified.cfg for the bounds. *)
EXTENDS CountStringified
=============================================================================
