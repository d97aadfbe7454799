SPECIFICATION Spec
CONSTANTS
  Registers <- MCRegisters
  Programs <- MCPairOnly
  Half = 8
  Arguments <- MCArguments
  CaseLimit = 2
  MaxCalls = 3
  MaxVersion = 9
INVARIANTS
  NothingTwice
CHECK_DEADLOCK FALSE
