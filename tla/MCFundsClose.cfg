SPECIFICATION Spec
CONSTANTS
  trade = trade
  arbitrage = arbitrage
  None = None
  Task = {trade}
  Amounts = {1, 3}
  Initials = {0, 1}
  Currents = {12, 22}
  Reserve = 2
  HarvestReserve = 1
  OneNear = 1
  MinHarvest = 1
  Multiplier = 2
  Functions = {"close"}
  Faults = FALSE
  MaxSwaps = 0
  Natives = {0, 1, 4}
  Wrappeds = {0, 2}
  Depositeds = {0, 5}
  MaxDeposited = 6
  MaxCalls = 2
PROPERTIES CloseSucceeds
CHECK_DEADLOCK FALSE
