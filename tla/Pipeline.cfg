SPECIFICATION PipelineSpec
CONSTANTS
  Ops <- Ops4
  GraphInputs <- OneInput
  Problems <- Several
  MaxGroups = 8
  MaxMoves = 2
  Retainable <- Kept
  Window = 2
INVARIANTS
  AlwaysScheduled
  SourceRuns
  MaterializedSound
  
  ReplayOrdered
  ScoresExact
CHECK_DEADLOCK FALSE
