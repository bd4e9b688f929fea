SPECIFICATION Spec
CONSTANTS
  Slots = 3
  Message = {score, credit}
  Free = Free
  FrameValues = 3
  MaxPosts = 4
INVARIANTS
  WaitsAtMostTheRing
PROPERTIES
  NeverWaitsTwice
  IsQueue
