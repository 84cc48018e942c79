\* Three events of two files, capacities 0, 1 and 2: a batch and a leftover.
CONSTANTS
  Files = {"a", "b"}
  MaxEvents = 3
  MaxCapacity = 2
SPECIFICATION Spec
INVARIANTS TypeOK BothOfAPair BatchesMeet
PROPERTY Judged
\* Nothing more arrives.
CHECK_DEADLOCK FALSE
