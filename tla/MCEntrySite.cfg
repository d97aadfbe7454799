SPECIFICATION Spec
CONSTANTS
  t1 = t1
  t2 = t2
  Thread <- MCThread2
  Case <- MCCase
  Backends <- MCEvery
  Llvm = TRUE
  CacheLoses = TRUE
  HotThreshold = 1
  MaxCases = 4
  CountCap = 2
  BridgeThreshold = 2
  MaxBridges = 4
  Tier2Threshold = 4
  Unset = Unset
  MaxCalls = 8
SYMMETRY MCSymmetry
INVARIANTS
  GuardExitsStop
  NoOtherFailure
CHECK_DEADLOCK FALSE
