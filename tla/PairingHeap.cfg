SPECIFICATION HeapSpec
CONSTANTS
  k1 = k1
  k2 = k2
  k3 = k3
  k4 = k4
  nil = nil
  Keys <- FourKeys
  Savings <- TwoSavings
  Nil = nil
SYMMETRY Interchangeable
INVARIANTS
  WellLinked
PROPERTIES
  ImplementsQueue
