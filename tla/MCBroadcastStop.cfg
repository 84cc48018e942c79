\* Two clients: an accept that a signal interrupts, one it misses, and a push
\* under way while the flag goes up.
CONSTANTS
  Clients = {c1, c2}
  Fds = {f1, f2}
  Nobody = Nobody
  Other = Other
  MaxSends = 1
SPECIFICATION Spec
PROPERTY StopEnds
CHECK_DEADLOCK FALSE
