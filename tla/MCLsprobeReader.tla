--------------------------- MODULE MCLsprobeReader ---------------------------
(* Model checking of LsprobeReader: see MCLsprobeReader.cfg for the bounds. *)
EXTENDS LsprobeReader
=============================================================================
