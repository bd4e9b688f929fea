SPECIFICATION InputsSpec
CONSTANTS
  Game <- BothGames
  Movement <- Motions
  MaxRolls <- RollsOf
  Irqs <- IrqsOf
  Key <- Keys3
  bitOf <- Bits
  Button <- Buttons
  PulseFrames = 7
  MaxPulses = 2
INVARIANT NothingStuck
INVARIANT KnobFollowsHand
INVARIANT SlowBallIsExact
PROPERTY RisesOnlyOnPress
PROPERTY BlasterStopsAtEnds
PROPERTY NoHalfPixelLost
