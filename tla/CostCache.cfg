SPECIFICATION FairSpec
CONSTANTS
  h1 = h1
  h2 = h2
  h3 = h3
  t1 = t1
  t2 = t2
  none = none
  Threads <- TwoThreads
  Hashes <- ThreeKeys
  Home <- HomeSlots
  Price <- PriceList
  Capacity = 4
  ProbeLimit = 2
  MaxEntries = 1
  Unlimited = FALSE
  NoKey = none
  NoPrice = none
INVARIANTS
  OneSlotPerKey
  LimitNearlyKept
PROPERTIES
  ImplementsMemo
  CallsReturn
