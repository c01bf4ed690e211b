SPECIFICATION Spec
CONSTANTS
  trade = trade
  arbitrage = arbitrage
  p1 = p1
  p2 = p2
  None = None
  Caller = {trade, arbitrage}
  Process = {p1}
  ProcessOf <- MCOneProcess
  Token <- MCToken
  Wnear = 1
  Needs <- MCNeeds
  Configured = {17, 60}
  Ceiling = 45
  ChunkSize = 1
  MinBound = 12
  TokenCost = 15
  LegacyCost = 8
  MaxRegisterPerCycle = 2
  U128Max = 1000
  Faults = TRUE
  StaleViews = FALSE
  Wallet = TRUE
  Legacy = {2}
  Slack = {0, 3}
  MaxCalls = 2
INVARIANTS TypeOK StorageSpendWithinRetryBudget NormalRegisterAccepted
PROPERTIES TopUpNeverDoubled ProtectedTokensStay OkMeansRegistered
SYMMETRY MCSymmetry
CHECK_DEADLOCK FALSE
