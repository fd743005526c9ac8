SPECIFICATION Spec
CONSTANTS
  Funds = {f, g}
  Mints = {t, u}
  NoMint = NoMint
  VaultRent = 1
  InitialSol = 1
  InitialTokens = 1
  Amounts = {1}
  MinOuts = {1, 2}
  SolMoves = {1}
  TokenMoves = {1}
  MaxLength = 4
  MaxTransactions = 1
INVARIANTS TypeOK NoLockSurvives OneLoanAtATime LoansPaid
CHECK_DEADLOCK FALSE
