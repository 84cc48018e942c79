\* Identifiers of four bits.
CONSTANTS
  Symbols <- MCSymbols
  Longs <- MCLongs
  MaxDepth = 240
  Texts <- MCTexts
  Accesses <- MCAccesses
  Limit = 16
SPECIFICATION Spec
INVARIANTS TypeOK VerdictSound SameAccessSameVerdict
\* Both filters have judged.
CHECK_DEADLOCK FALSE
