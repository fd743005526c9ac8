SPECIFICATION StrategySpec
CONSTANTS
  Mints = {a, b, c, d}
  Feeds = {f}
  NoFeed = NoFeed
  Prices = {10, 20}
  SolPrices = {10}
  MaxSlippageBps = 2000
  VaultRent = 1
  SolVaultRent = 1
  TokenAccountRent = 1
  OrderRent = 1
  InitialSol = 0
  OrderIds = {0}
  Amounts = {20}
  MinOuts = {1, 10}
  Outs = {1, 10}
  Expiries = {0}
  MaxTime = 2
  MinManagerDeposit = 1
  DepositFeeBps = 0
  MaxStrategyTokens = 2
  SellDust = 2
  CountModulus = 3
  Weights = {5000, 10000}
  Thresholds = {0}
  Cooldowns = {1}
  Rests = {0, 5}
  Gifts = {5}
  MaxDonated = 5
  MaxVault = 20
SYMMETRY TokenSymmetry
INVARIANTS StrategyTypeOK WsolFromOneBuy
PROPERTIES RebalanceSeesWholeFund RebalanceLossBounded NoOvershoot RebalancesSpaced
CHECK_DEADLOCK FALSE
