SPECIFICATION Spec
CONSTANTS
  a = a
  b = b
  Token = {a, b}
  Wnear = Wnear
  Days = 1
  Target = 1
  Share = 2
  Multiplier = 2
  MinHarvest = 1
  UnwrapOnStop = TRUE
  Wallets = {1, 2}
  MaxValue = 4
INVARIANTS TypeOK TradesFunded NoReinvestment
PROPERTIES HarvestLeavesDouble InitialValueRefreshed
SYMMETRY MCSymmetry
