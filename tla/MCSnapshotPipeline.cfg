SPECIFICATION Spec
CONSTANTS
  Half = 4
  StepLimit = 6
  Capacity = 4
  Heap <- SmallHeap
  Drafts <- MCDrafts
INVARIANTS
  MeansTheSame
  PassesVerify
  ReadsDefined
  FrameIsRebuilt
CHECK_DEADLOCK FALSE
