SPECIFICATION LimitSpec
CONSTANTS
  Mints = {a}
  Feeds = {f, g}
  NoFeed = NoFeed
  Prices = {1, 3}
  SolPrices = {2}
  MaxSlippageBps = 5000
  VaultRent = 1
  SolVaultRent = 1
  TokenAccountRent = 1
  OrderRent = 1
  InitialSol = 2
  OrderIds = {0, 1}
  Amounts = {1, 2}
  MinOuts = {1}
  Outs = {0, 1, 2}
  Expiries = {1}
  MaxTime = 2
  LimitPrices = {1}
  PriceUnits = {2}
INVARIANTS LimitFundTypeOK CountWithinListed LimitCountExact LimitEscrowExact
CHECK_DEADLOCK FALSE
