SPECIFICATION SearchSpec
CONSTANTS
  Ops <- Ops4
  GraphInputs <- OneInput
  Problems <- FewFit
  MaxGroups = 6
  MaxMoves = 3
  InitCount = 4
INVARIANTS
  PendingApplies
PROPERTIES
  StaleStaysGapFree
CHECK_DEADLOCK FALSE
