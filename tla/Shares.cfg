SPECIFICATION FairSpec
CONSTANTS
  Investors = {m, a}
  Manager = m
  MinManagerDeposit = 3
  MinInvestorDeposit = 2
  DepositFeeBps = 3400
  WithdrawFeeBps = 5000
  MinTimelock = 1
  MaxTimelock = 1
  VaultRent = 1
  RequestRent = 1
  Wallet = 4
  DepositAmounts = {2, 3}
  VaultBalances = {0, 1, 2, 3}
  AssetValues = {0, 1}
  MaxTime = 2
INVARIANTS TypeOK SharesAddUp
PROPERTIES RequestsPaid NoDilution PayoutsSpaced LamportsConserved
CHECK_DEADLOCK FALSE
