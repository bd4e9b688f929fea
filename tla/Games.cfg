SPECIFICATION GamesFairSpec
CONSTANTS
  DipLives = 3
  MaxBoards = 2
  MaxPosts = 2
  StartingShips = 1
  CREDIT_CAP = 2
  Wave = 1
  Bottom = 1
  Threshold = 1
  TopLevel = 1
INVARIANT LivesAddUp
INVARIANT OwnField
INVARIANT EndsArmed
INVARIANT CoinsCounted
INVARIANT IsDecimal
PROPERTY TakesTurns
PROPERTY WaitingPoints
PROPERTY EndsWhenAllOut
PROPERTY CreditsGetTheirScreen
PROPERTY GamesGoOn
