SPECIFICATION DcaFairSpec
CONSTANTS
  Mints = {a}
  Feeds = {f}
  NoFeed = NoFeed
  Prices = {2}
  SolPrices = {2, 4}
  MaxSlippageBps = 5000
  VaultRent = 1
  SolVaultRent = 1
  TokenAccountRent = 1
  OrderRent = 1
  InitialSol = 4
  OrderIds = {0, 1}
  Amounts = {2, 3}
  MinOuts = {1}
  Outs = {0, 1, 2}
  Expiries = {0, 1}
  MaxTime = 2
  Intervals = {1}
  MaxActiveDca = 1
INVARIANTS DcaFundTypeOK DcaCountExact DcaEscrowExact DcaPace DcaSlicesExact
PROPERTY DcaCompletes
CHECK_DEADLOCK FALSE
