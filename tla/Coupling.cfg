SPECIFICATION CoupledSpec
CONSTANTS
  Ops <- Ops5
  GraphInputs <- TwoInputs
  Problems <- Several
  StartTables <- Starts
  Retainable <- Ops5
  MaxGroups = 7
  MaxMoves = 3
INVARIANTS EntriesScheduled
PROPERTIES StaysServing  ForecastsHold
CHECK_DEADLOCK FALSE
