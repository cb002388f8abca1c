SPECIFICATION EvoSpec
CONSTANTS
  Ops <- Ops4
  GraphInputs <- OneInput
  Problems <- Several
  StartTables <- Tables
  MateTables <- Tables
  Retainable <- Ops4
  Alike <- Classes
  Patterns <- Symmetric
  MaxGroups = 7
  MaxMoves = 3
INVARIANTS
  KeepsEveryOp
  CutAccepted
  AlignedAlike
PROPERTIES
  MutationsSound
  RepairRestores
CHECK_DEADLOCK FALSE
