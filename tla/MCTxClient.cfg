SPECIFICATION FairSpec
CONSTANTS
  trade = trade
  arbitrage = arbitrage
  Task = {trade, arbitrage}
  MaxSends = 2
  MaxAttempts = 2
  Faults = TRUE
  StaleViews = TRUE
INVARIANTS TypeOK LiveShareNextNonce TaskOrder
PROPERTIES ImplementsPool SendsReturn
CHECK_DEADLOCK FALSE
