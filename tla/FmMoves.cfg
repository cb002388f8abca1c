SPECIFICATION Spec
CONSTANTS
  Ops <- Ops4
  GraphInputs <- OneInput
  Problems <- FourOps
  MaxGroups = 6
  MaxMoves = 4
INVARIANTS
  IndexCurrent
  NoOpLost
  GdagSound
  GdagComplete
PROPERTIES
  StaysAcyclic
  StaysGapFree
CHECK_DEADLOCK FALSE
