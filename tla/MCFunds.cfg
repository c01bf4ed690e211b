SPECIFICATION FairSpec
CONSTANTS
  trade = trade
  arbitrage = arbitrage
  None = None
  Task = {trade, arbitrage}
  Amounts = {1, 3}
  Initials = {0, 1}
  Currents = {22}
  Reserve = 2
  HarvestReserve = 1
  OneNear = 1
  MinHarvest = 1
  Multiplier = 2
  Functions <- MCFunctions
  Faults = TRUE
  MaxSwaps = 1
  Natives = {1, 4}
  Wrappeds = {0, 2}
  Depositeds = {0, 5}
  MaxDeposited = 6
  MaxCalls = 2
INVARIANTS TypeOK
PROPERTIES WrapKeepsReserve TransferKeepsReserve HarvestLeavesUpper OkMeansFunded CallsReturn
CHECK_DEADLOCK FALSE
