SPECIFICATION FairSpec
CONSTANTS
  Latch = {latch}
  IRQ = irq
  Value = {low, high}
  Idle = low
  Unset = Unset
PROPERTY WorkerGetsArmed
