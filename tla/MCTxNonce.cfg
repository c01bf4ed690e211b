SPECIFICATION Spec
CONSTANTS
  trade = trade
  arbitrage = arbitrage
  Task = {trade, arbitrage}
  MaxSends = 2
  MaxAttempts = 2
  Faults = FALSE
  StaleViews = TRUE
PROPERTIES FreshNonceAfterFinal
CHECK_DEADLOCK FALSE
