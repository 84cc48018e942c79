\* The mode any: two sources of two events each, so that one chain can hold an
\* event in any stage while the other, or main, moves.
CONSTANTS
  Sources = {"lsp", "fan"}
  MaxEvents = 2
SPECIFICATION Spec
INVARIANT TypeOK
PROPERTY Shown
\* The process exits.
CHECK_DEADLOCK FALSE
