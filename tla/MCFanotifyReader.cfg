\* Five accesses over a queue of three and batches of two: two batches, an
\* overflow and an access after it.
CONSTANTS
  MaxEvents = 5
  MaxQueue = 3
  BatchMax = 2
SPECIFICATION Spec
INVARIANTS TypeOK DescriptorsClosed
PROPERTIES Promise StopBounded StopEnds
\* The reader stops for good, or sleeps for good, at the end of a behaviour.
CHECK_DEADLOCK FALSE
