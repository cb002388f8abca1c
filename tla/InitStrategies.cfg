SPECIFICATION StrategiesSpec
CONSTANTS
  Ops <- Ops4
  GraphInputs <- TwoInputs
  Problems <- Several
  MaxGroups = 6
INVARIANTS
  InitSound
CHECK_DEADLOCK FALSE
