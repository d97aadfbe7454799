SPECIFICATION Spec
CONSTANTS
  Case = {c1, c2, c3}
  HotThreshold = 3
  MaxCases = 2
  CountCap = 5
  MaxEpoch = 1
INVARIANTS
  StepsNeedWindows
PROPERTIES
  NoGenericCode
CHECK_DEADLOCK FALSE
