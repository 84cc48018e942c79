\* The mode only: five events, one for each stage of the chain and the filter's
\* slot, accepted and rejected in every pattern.
CONSTANTS
  Sources = {"lsp"}
  MaxEvents = 5
SPECIFICATION SafeSpec
INVARIANT Conservation
\* The process exits.
CHECK_DEADLOCK FALSE
