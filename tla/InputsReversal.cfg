SPECIFICATION InputsSpec
CONSTANTS
  Game <- BothGames
  Movement <- ShortMotions
  MaxRolls <- RollsOf
  Irqs <- IrqsOf
  Key <- Keys3
  bitOf <- Bits
  Button <- Buttons
  PulseFrames = 7
  MaxPulses = 2
INVARIANT NeverReversed
