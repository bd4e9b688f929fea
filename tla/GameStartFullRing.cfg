SPECIFICATION Spec
CONSTANTS
  Slots = 32
  AnimFrames = 96
  CoinsPerCredit = 1
  CreditsPerCoin = 1
  CreditCap = 90
  DemoPosts = 1
  MaxCoins = 1
INVARIANT NewGameStartsAtZero
