SPECIFICATION PublicSpec
CONSTANTS
  h1 = h1
  h2 = h2
  t1 = t1
  t2 = t2
  Handle <- MCTwoHandles
  Cycle <- MCThread
  PromotionAge = 1
  AllocationLimit = 2
  MaxPins = 3
  MaxBatch = 0
  MaxRoots = 0
  MaxLeases = 1
  CollectSettings = {TRUE, FALSE}
  MinorSettings = {FALSE}
SYMMETRY Symmetric
INVARIANTS
  LeaseHolds
  PinsExact
  ReadsRoot
  PayloadsSwept
CHECK_DEADLOCK FALSE
