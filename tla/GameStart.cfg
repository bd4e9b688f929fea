SPECIFICATION Spec
CONSTANTS
  Slots = 10
  AnimFrames = 8
  CoinsPerCredit = 2
  CreditsPerCoin = 1
  CreditCap = 2
  DemoPosts = 1
  MaxCoins = 6
INVARIANTS
  CoinsCountOnce
  CreditsPaidFor
  ZeroWhenQueued
