SPECIFICATION InvestedSpec
CONSTANTS
  Mints = {a}
  Feeds = {f}
  NoFeed = NoFeed
  Prices = {1, 2}
  SolPrices = {1}
  MaxSlippageBps = 5000
  VaultRent = 1
  SolVaultRent = 1
  TokenAccountRent = 1
  OrderRent = 1
  InitialSol = 0
  OrderIds = {0}
  Amounts = {2}
  MinOuts = {1}
  Outs = {2}
  Expiries = {0}
  MaxTime = 1
  LimitPrices = {1}
  PriceUnits = {1}
  Intervals = {1}
  MaxActiveDca = 1
  Investors = {m}
  Manager = m
  MinManagerDeposit = 3
  MinInvestorDeposit = 1
  DepositFeeBps = 0
  WithdrawFeeBps = 5000
  MinTimelock = 0
  MaxTimelock = 0
  RequestRent = 1
  Wallet = 8
  DepositAmounts = {3}
  RequestAmounts = {2, 3}
  VaultBalances = {0, 1, 2, 3, 4, 5, 6, 7, 8, 9, 10, 11, 12}
  AssetValues = {0, 1, 2, 3, 4, 5, 6, 7, 8, 9, 10, 11, 12, 13, 14, 15, 16, 17, 18, 19, 20}
PROPERTIES ImplementsShares WholeFundUndiluted LastShareEmptiesOrders
CHECK_DEADLOCK FALSE
