SPECIFICATION TradingSpec
CONSTANTS
  Mints = {a}
  Feeds = {f}
  NoFeed = NoFeed
  Prices = {10}
  SolPrices = {10}
  MaxSlippageBps = 1000
  VaultRent = 1
  SolVaultRent = 1
  TokenAccountRent = 1
  OrderRent = 1
  InitialSol = 50
  OrderIds = {0}
  Amounts = {50}
  MinOuts = {1}
  Outs = {50}
  Expiries = {0}
  MaxTime = 1
  LimitPrices = {1}
  PriceUnits = {10}
  Intervals = {1}
  MaxActiveDca = 2
INVARIANT HoldingsListed
CHECK_DEADLOCK FALSE
