SPECIFICATION Spec
CONSTANTS
  Capacity = 3
  MaxGeneration = 3
  Runtime = Runtime
  ForeignRuntime = ForeignRuntime
  Gone = Gone
  Value = {v1, v2}
INVARIANTS
  TypeOK
  FreeListExact
  ResolvesToOwnValue
PROPERTY
  NeverReissued
CHECK_DEADLOCK FALSE
