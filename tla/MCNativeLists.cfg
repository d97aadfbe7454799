SPECIFICATION Spec
CONSTANTS
  Half = 4
  StepLimit = 1
  SlotCount = 4
  BlockLimit = 7
  Drafts <- MCDrafts
INVARIANTS
  MachineAgrees
  StaysInside
  RefusesForCause
CHECK_DEADLOCK FALSE
