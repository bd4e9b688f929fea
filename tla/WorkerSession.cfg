SPECIFICATION FairSpec
CONSTANTS
  Latch = {latch}
  IRQ = irq
  Value = {low, high}
  Idle = low
  Unset = Unset
INVARIANTS
  NoResetLost
  PauseFreezes
  PageIsUpToDate
PROPERTY ResetComes
