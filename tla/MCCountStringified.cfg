\* Two accepted events: one in the merged process while the other, of the same or
\* the other source, waits or arrives after the signal.  One client breaks.
CONSTANTS
  MaxEvents = 2
  MaxBroken = 1
SPECIFICATION Spec
INVARIANTS TypeOK CountsExact DrainedIsExact
PROPERTIES StopBounded StopEnds
\* The process is gone, or sleeps for good.
CHECK_DEADLOCK FALSE
