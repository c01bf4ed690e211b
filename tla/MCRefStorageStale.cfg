SPECIFICATION FairSpec
CONSTANTS
  trade = trade
  arbitrage = arbitrage
  p1 = p1
  p2 = p2
  None = None
  Caller = {trade, arbitrage}
  Process = {p1}
  ProcessOf <- MCOneProcess
  Token = {1, 2}
  Wnear = 1
  Needs = {{2}}
  Configured = {17}
  Ceiling = 45
  ChunkSize = 1
  MinBound = 12
  TokenCost = 15
  LegacyCost = 8
  MaxRegisterPerCycle = 2
  U128Max = 1000
  Faults = TRUE
  StaleViews = TRUE
  Wallet = TRUE
  Legacy = {2}
  Slack = {0, 3}
  MaxCalls = 2
INVARIANTS CallSpendWithinCap StorageSpendWithinRetryBudget
PROPERTIES CallsReturn
CHECK_DEADLOCK FALSE
