SPECIFICATION Spec
CONSTANTS
  h1 = h1
  h2 = h2
  c1 = c1
  c2 = c2
  Handle <- MCTwoHandles
  Cycle <- MCTwoCycles
  PromotionAge = 2
  AllocationLimit = 2
  MaxPins = 2
  MaxBatch = 2
  MaxRoots = 2
SYMMETRY Symmetric
INVARIANTS
  TypeOK
  PinnedLive
  LiveCountExact
  CollectorSets
PROPERTIES
  KeepsPromise
  FinishKeepsRoots
CHECK_DEADLOCK FALSE
