SPECIFICATION PipelineSpec
CONSTANTS
  Ops <- Ops4
  GraphInputs <- OneInput
  Problems <- OnlyBeside
  MaxGroups = 8
  MaxMoves = 2
  Retainable <- Kept
  Window = 2
INVARIANTS
  ReadsWritten
CHECK_DEADLOCK FALSE
