SPECIFICATION TradingSpec
CONSTANTS
  Mints = {a}
  Feeds = {f, g}
  NoFeed = NoFeed
  Prices = {10, 20}
  SolPrices = {10}
  MaxSlippageBps = 1000
  VaultRent = 1
  SolVaultRent = 1
  TokenAccountRent = 1
  OrderRent = 1
  InitialSol = 149
  OrderIds = {0, 1}
  Amounts = {50, 100}
  MinOuts = {1}
  Outs = {45, 90}
  Expiries = {0}
  MaxTime = 1
  LimitPrices = {1}
  PriceUnits = {10}
  Intervals = {1}
  MaxActiveDca = 2
PROPERTIES NavKeptByOrders FillLossBounded NavLostOnlyByRemoval
CHECK_DEADLOCK FALSE
