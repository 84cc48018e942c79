CONSTANTS
  Symbols <- MCSymbols
  Longs <- MCLongs
  MaxDepth = 150
  Texts <- MCTexts
  Accesses <- MCAccesses
  Limit = 16
SPECIFICATION Spec
INVARIANTS ParsesRight ReadsBack
\* The text was refused, or both filters have judged.
CHECK_DEADLOCK FALSE
