\* What the usage text says of the identifiers, for both sources.
CONSTANTS
  Symbols <- MCSymbols
  Longs <- MCLongs
  MaxDepth = 240
  Texts <- MCTexts
  Accesses <- MCAccesses
  Limit = 16
SPECIFICATION Spec
INVARIANT UsageHolds
\* Both filters have judged.
CHECK_DEADLOCK FALSE
