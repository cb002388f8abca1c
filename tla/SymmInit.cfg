SPECIFICATION SymmSpec
CONSTANTS
  Ops <- Ops10
  GraphInputs <- ThreeInputs
  Problems <- FiveGraphs
  Kind <- Kinds
  HashOrders <- FourOrders
  MaxGroups = 20
INVARIANTS
  LocallyAlike
  NothingLost
  ReplicatedOnce
CHECK_DEADLOCK FALSE
