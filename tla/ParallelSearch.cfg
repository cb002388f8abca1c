SPECIFICATION SearchSpec
CONSTANTS
  Candidates <- Names
  Cost <- NameCost
  Dist <- NameDist
  Far = 600
  HardCap = 2
  NearDup = 60
  EvictMargin = 30
  MinDiversity = 60
  CostEps = 1
  MaxCostRatio = 2
  Workers = {w1, w2, w3}
  Strategies = 2
  Trivial = "far"
  SymmParts <- OneSymm
  MaxSymmParts = 1
  Unlimited = 1000
  EarlyStop = TRUE
  StopAfter = 1
INVARIANTS
  BestEverHeld
  ContextPublished
  BestReturned
PROPERTIES
  Returns
