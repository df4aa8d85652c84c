SPECIFICATION MCSpec
CONSTANTS
  Game = {"adventure", "pong"}
  Item <- MCItem
  Special = "special"
  Action <- MCAction
  Weight <- MCWeight
  Spread = 1
  Expendable <- MCExpendable
  NotSold <- MCNotSold
  Prices <- MCPrices
  Heal = {1, 2}
  Place = {"village", "caves"}
  Village = "village"
  Enemy <- MCEnemy
  MenuSize = 2
  INITIAL_HEALTH = 2
  INITIAL_COIN = 3
  MaxItems = 3
  MaxHealth = 4
  MaxCoins = 5
  W = 32
  H = 20
  Ball = 4
  PadW = 2
  PadH = 6
  Margin = 2
  Step = 1
  Band = 2
  Flat = 2
  Steep = 2
  Limit = 3
  MaxSpeed = 8
INVARIANTS AdventureInv BallInPlay ScoresFair BallNearScreen
PROPERTIES CoinsAreEarned
CHECK_DEADLOCK FALSE
