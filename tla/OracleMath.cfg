SPECIFICATION OracleSpec
CONSTANTS
  LamportsPerSol = 10
  MaxAge = 1
  MaxConfBps = 2000
  CastModulus = 4096
  Prices = {0, 3, 10}
  Confidences = {0, 2}
  MaxExpo = 2
  Amounts = {0, 1, 7}
  LimitPrices = {1, 3}
  MaxTime = 4
INVARIANTS ValueExact RoundTripsNeverGain TriggerHonest PricesContemporary ConfidenceBoundsError
CHECK_DEADLOCK FALSE
