SPECIFICATION PoolSpec
CONSTANTS
  Candidates <- Names
  Cost <- Costs
  Dist <- Distances
  Far = 600
  HardCap = 3
  NearDup = 60
  EvictMargin = 30
  MinDiversity = 60
  CostEps = 1
  MaxCostRatio = 2
INVARIANTS
  CacheExact
  CheapestKept
  
