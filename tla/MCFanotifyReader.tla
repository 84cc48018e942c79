--------------------------- MODULE MCFanotifyReader ---------------------------
(* Model checking of FanotifyReader: see MCFanotifyReader.cfg for the bounds. *)
EXTENDS FanotifyReader
=============================================================================
