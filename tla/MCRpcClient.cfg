SPECIFICATION FairSpec
CONSTANTS
  trade = trade
  arbitrage = arbitrage
  Caller = {trade, arbitrage}
  RpcEndpoints <- MCEndpoints
  RetryLimit = 3
  U16Max = 4
  Networks <- MCNetworks
INVARIANTS TypeOK AttemptsWithinLimit LimitMeansExhausted FailoverSucceeds
PROPERTIES CallsReturn
