---------------------------- MODULE MCControlReader ----------------------------
(* Model checking of ControlReader: see MCControlReader.cfg for the bounds. *)
EXTENDS ControlReader
=============================================================================
