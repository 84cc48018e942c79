--------------------------- MODULE MCEventPipeline ---------------------------
(* Model checking of EventPipeline: see MCEventPipeline.cfg for the bounds. *)
EXTENDS EventPipeline
=============================================================================
