\* Three events: one delivered, one in the buffer and one in the device when
\* the stop arrives.
CONSTANT MaxEvents = 3
SPECIFICATION Spec
INVARIANTS TypeOK GapFree
PROPERTIES Promise StopEnds
\* The reader stops for good, or sleeps for good, at the end of a behaviour.
CHECK_DEADLOCK FALSE
