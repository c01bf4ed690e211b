SPECIFICATION FairSpec
CONSTANTS
  a = a
  b = b
  Token = {a, b}
  Wnear = Wnear
  Days = 2
  Target = 1
  Share = 2
  Multiplier = 1
  MinHarvest = 1
  UnwrapOnStop = TRUE
  Wallets = {2}
  MaxValue = 2
PROPERTIES TradingResumes LeftoversSold StopLiquidates
