SPECIFICATION Spec
CONSTANTS
  Registers <- MCRegisters
  Programs <- MCPrograms
  Half = 8
  Arguments <- MCArguments
  CaseLimit = 2
  MaxCalls = 3
  MaxVersion = 9
INVARIANTS
  AsInterpreted
PROPERTIES
  LoopEnds
CHECK_DEADLOCK FALSE
