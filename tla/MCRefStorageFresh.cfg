SPECIFICATION FairSpec
CONSTANTS
  trade = trade
  arbitrage = arbitrage
  p1 = p1
  p2 = p2
  None = None
  Caller = {trade}
  Process = {p1}
  ProcessOf <- MCTradeOnly
  Token = {1, 2}
  Wnear = 1
  Needs = {{2}}
  Configured = {17}
  Ceiling = 45
  ChunkSize = 1
  MinBound = 12
  TokenCost = 15
  LegacyCost = 8
  MaxRegisterPerCycle = 2
  U128Max = 1000
  Faults = FALSE
  StaleViews = FALSE
  Wallet = FALSE
  Legacy = {}
  Slack = {0, 3}
  MaxCalls = 0
PROPERTIES RejectionRecovered
