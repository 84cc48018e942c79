\* Two instances, one started before, beside or after the other, or again in its
\* place.  Two clients: one in hand while the other waits.
CONSTANTS
  Instances = {a, b}
  Texts = {"off", "on+newline"}
  MaxClients = 2
  MaxStarts = 2
SPECIFICATION Spec
INVARIANTS TypeOK NeverListensUnaided ReachableAlone Obeyed
PROPERTIES Heard StopEnds
\* All processes have ended and no more are started.
CHECK_DEADLOCK FALSE
