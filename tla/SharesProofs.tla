---------------------------- MODULE SharesProofs ----------------------------
(***************************************************************************)
(* Proofs about Shares for every value of its constants.                   *)
(***************************************************************************)
EXTENDS MCShares, FundMathProofs

-----------------------------------------------------------------------------
(* Type correctness.                                                       *)

USE DEF ledger, money, vars

\* Where a deposit is priced, the shares it mints are a natural number bounded
\* by the depositor's part of the fund.
LEMMA MintedBound ==
    ASSUME NEW net \in Nat, TypeOK, NavReadable, Nav > 0
    PROVE  /\ SharesToMint(net, totalShares, Nav) \in Nat
           /\ SharesToMint(net, totalShares, Nav) * Nav <= net * totalShares
<1>1. Nav \in Nat \ {0}
  BY SMT DEF TypeOK, Nav, NavReadable
<1>2. net * totalShares \in Nat
  BY SMT DEF TypeOK
<1> QED
  BY <1>1, <1>2, DivisionRoundsDown DEF SharesToMint

\* Where a withdrawal is priced, the payout is a natural number bounded by the
\* withdrawer's part of the fund, and all of it for the last shares.
LEMMA GrossBound ==
    ASSUME NEW shares \in Nat, TypeOK, NavReadable, totalShares > 0
    PROVE  /\ GrossPayout(shares, Nav, totalShares) \in Nat
           /\ GrossPayout(shares, Nav, totalShares) * totalShares <= shares * Nav
           /\ shares = totalShares => GrossPayout(shares, Nav, totalShares) = Nav
<1>1. totalShares \in Nat \ {0} /\ Nav \in Nat
  BY SMT DEF TypeOK, Nav, NavReadable
<1>2. shares * Nav \in Nat
  BY <1>1, SMT
<1> DEFINE gross == GrossPayout(shares, Nav, totalShares)
<1>3. /\ gross \in Nat
      /\ gross * totalShares <= shares * Nav
      /\ shares * Nav < gross * totalShares + totalShares
  BY <1>1, <1>2, DivisionRoundsDown DEF GrossPayout
<1>4. ASSUME shares = totalShares PROVE gross = Nav
  <2> HIDE DEF gross
  <2>1. gross * totalShares <= totalShares * Nav
    BY <1>1, <1>3, <1>4
  <2>2. totalShares * Nav < (gross + 1) * totalShares
    BY <1>1, <1>3, <1>4, Z3
  <2>3. gross <= Nav
    BY <1>1, <1>3, <2>1, Z3
  <2>4. Nav < gross + 1
    BY <1>1, <1>3, <2>2, Z3
  <2> QED
    BY <1>1, <1>3, <2>3, <2>4
<1> QED
  BY <1>3, <1>4

\* The initial state is of the right type.
LEMMA InitTypeOK == Init => TypeOK
  BY SharesAssumption DEF Init, TypeOK, NoFund, NoRequest

\* Every instruction and every outside step keeps the types.
LEMMA NextTypeOK == TypeOK /\ [Next]_vars => TypeOK'
<1> SUFFICES ASSUME TypeOK, [Next]_vars PROVE TypeOK'
  OBVIOUS
<1>1. ASSUME NEW deposit \in DepositAmounts, NEW lock \in MinTimelock .. MaxTimelock,
             InitializeFund(deposit, lock)
      PROVE  TypeOK'
  <2>1. deposit \in Nat /\ lock \in Nat /\ Manager \in Investors /\ VaultRent \in Nat
    BY SharesAssumption
  <2>2. FeeOf(deposit, DepositFeeBps) \in Nat /\ FeeOf(deposit, DepositFeeBps) <= deposit
    BY <2>1, FeeInAmount, SharesAssumption
  <2> QED
    BY <1>1, <2>1, <2>2 DEF InitializeFund, Mint, TypeOK
<1>2. ASSUME NEW i \in Investors, NEW amount \in DepositAmounts, Deposit(i, amount)
      PROVE  TypeOK'
  <2> DEFINE fee == FeeOf(amount, DepositFeeBps)
             minted == SharesToMint(amount - fee, totalShares, Nav)
  <2>1. amount \in Nat
    BY SharesAssumption
  <2>2. fee \in Nat /\ amount - fee \in Nat
    BY <2>1, FeeInAmount, SharesAssumption
  <2>3. minted \in Nat
    BY <1>2, <2>2, MintedBound DEF Deposit, Mint
  <2> QED
    BY <1>2, <2>1, <2>2, <2>3 DEF Deposit, Mint, TypeOK
<1>3. ASSUME NEW i \in Investors, NEW shares \in 1 .. totalShares,
             RequestWithdraw(i, shares)
      PROVE  TypeOK'
  BY <1>3, SharesAssumption DEF RequestWithdraw, TypeOK
<1>4. ASSUME NEW i \in Investors, CancelWithdraw(i) PROVE TypeOK'
  BY <1>4, SharesAssumption DEF CancelWithdraw, TypeOK, NoRequest
<1>5. ASSUME NEW i \in Investors, ExecuteWithdraw(i) PROVE TypeOK'
  <2> DEFINE shares == request[i].shares
             gross == GrossPayout(shares, Nav, totalShares)
             fee == FeeOf(gross, WithdrawFeeBps)
  <2>1. shares \in Nat /\ RequestRent \in Nat
    BY SharesAssumption DEF TypeOK
  <2>2. gross \in Nat
    BY <1>5, <2>1, GrossBound DEF ExecuteWithdraw, SharesAtHand, SharesCounted
  <2>3. fee \in Nat /\ gross - fee \in Nat
    BY <2>2, FeeInAmount, SharesAssumption
  <2> QED
    BY <1>5, <2>1, <2>2, <2>3 DEF ExecuteWithdraw, SharesAtHand, SharesCounted, TypeOK, NoRequest
<1>6. ASSUME NEW i \in Investors, NEW j \in Investors, NEW shares \in 1 .. totalShares,
             TransferShares(i, j, shares)
      PROVE  TypeOK'
  BY <1>6 DEF TransferShares, TypeOK
<1>7. ASSUME NEW i \in Investors, NEW shares \in 1 .. totalShares, BurnShares(i, shares)
      PROVE  TypeOK'
  BY <1>7 DEF BurnShares, TypeOK
<1>8. ASSUME NEW lamports \in VaultBalances, NEW value \in AssetValues \cup {NoValue},
             PortfolioMoves(lamports, value)
      PROVE  TypeOK'
  BY <1>8, SharesAssumption DEF PortfolioMoves, TypeOK, NoValue
<1>9. ASSUME NEW value \in AssetValues \cup {NoValue}, AssetsRevalued(value) PROVE TypeOK'
  BY <1>9, SharesAssumption DEF AssetsRevalued, TypeOK, NoValue
<1>10. CASE Tick
  BY <1>10 DEF Tick, TypeOK
<1>11. CASE UNCHANGED vars
  BY <1>11 DEF TypeOK
<1> QED
  BY <1>1, <1>2, <1>3, <1>4, <1>5, <1>6, <1>7, <1>8, <1>9, <1>10, <1>11 DEF Next

\* Balances, counts, clocks and lamports stay natural numbers whatever the
\* fees, the deposits and the trades: no checked_sub of the share ledger fails
\* half way through an instruction.
THEOREM TypeCorrect == Spec => []TypeOK
<1>1. Init => TypeOK
  BY InitTypeOK
<1>2. TypeOK /\ [Next]_vars => TypeOK'
  BY NextTypeOK
<1> QED
  BY <1>1, <1>2, PTL DEF Spec

-----------------------------------------------------------------------------
(* Safety.                                                                 *)

\* The requests an investor has open were written after the last payout.
RequestAfterPayout ==
    \A i \in Investors : Requested(i) => request[i].ts >= lastPaid[i]

\* A fund whose last share was paid out has no vault: no trade can bring one back.
EmptyFundHasNoVault == FundExists /\ totalShares = 0 => vault = 0

\* What makes the safety invariants inductive.
Inv ==
    /\ TypeOK
    /\ SupplyCovered
    /\ EmptyFundHasNoVault
    /\ \A i \in Investors : lastPaid[i] <= now
    /\ RequestAfterPayout
    /\ ~FundExists => totalShares = 0 /\ supply = 0 /\ vault = 0 /\ assets = 0

\* The initial state satisfies the inductive invariant.
LEMMA InitInv == Init => Inv
<1>1. Init => TypeOK
  BY InitTypeOK
<1> QED
  BY <1>1, SharesAssumption
  DEF Init, Inv, SupplyCovered, EmptyFundHasNoVault, RequestAfterPayout, Requested,
      NoRequest, FundExists, NoFund

\* The invariant is inductive.
LEMMA NextInv == Inv /\ [Next]_vars => Inv'
<1> SUFFICES ASSUME Inv, [Next]_vars PROVE Inv'
  OBVIOUS
<1> USE DEF Inv
<1>0. TypeOK'
  BY NextTypeOK
<1> DEFINE Rest == /\ SupplyCovered
                   /\ EmptyFundHasNoVault
                   /\ \A i \in Investors : lastPaid[i] <= now
                   /\ RequestAfterPayout
                   /\ ~FundExists => totalShares = 0 /\ supply = 0 /\ vault = 0 /\ assets = 0
<1> SUFFICES Rest'
  BY <1>0
<1>1. ASSUME NEW deposit \in DepositAmounts, NEW lock \in MinTimelock .. MaxTimelock,
             InitializeFund(deposit, lock)
      PROVE  Rest'
  <2> DEFINE net == deposit - FeeOf(deposit, DepositFeeBps)
  <2>1. net \in Nat /\ net > 0 /\ lock \in Nat
    <3>1. deposit \in Nat /\ MinTimelock \in Nat /\ MaxTimelock \in Nat
      BY SharesAssumption
    <3>2. FeeOf(deposit, DepositFeeBps) \in Nat
      BY <3>1, FeeInAmount, SharesAssumption
    <3> QED
      BY <1>1, <3>1, <3>2 DEF InitializeFund, Mint
  <2>2. totalShares' = net /\ supply' = supply + net /\ timelock' = lock
    <3>1. totalShares = 0
      BY <1>1 DEF InitializeFund, Inv
    <3>2. totalShares' = totalShares + net /\ supply' = supply + net /\ timelock' = lock
      BY <1>1 DEF InitializeFund, Mint
    <3> QED
      BY <3>1, <3>2, <2>1
  <2>3. UNCHANGED <<now, request, assets, lastPaid>>
    BY <1>1 DEF InitializeFund, Mint
  <2>4. SupplyCovered'
    BY <1>1, <2>1, <2>2 DEF InitializeFund, Mint, SupplyCovered, FundExists, TypeOK
  <2>5. EmptyFundHasNoVault' /\ FundExists'
    BY <2>1, <2>2 DEF EmptyFundHasNoVault, FundExists, NoFund
  <2> QED
    BY <2>3, <2>4, <2>5 DEF RequestAfterPayout, Requested
<1>2. ASSUME NEW i \in Investors, NEW amount \in DepositAmounts, Deposit(i, amount)
      PROVE  Rest'
  <2> DEFINE net == amount - FeeOf(amount, DepositFeeBps)
             minted == SharesToMint(net, totalShares, Nav)
  <2>1. net \in Nat
    BY FeeInAmount, SharesAssumption
  <2>2. minted \in Nat
    BY <1>2, <2>1, MintedBound DEF Deposit, Mint
  <2>3. /\ totalShares' = totalShares + minted /\ supply' = supply + minted
        /\ totalShares > 0 /\ FundExists
        /\ UNCHANGED <<now, timelock, request, assets, lastPaid>>
    BY <1>2 DEF Deposit, Mint, VaultAlive
  <2> HIDE DEF minted
  <2>4. SupplyCovered' /\ totalShares' > 0
    BY <2>2, <2>3 DEF SupplyCovered, TypeOK
  <2> QED
    BY <2>3, <2>4 DEF EmptyFundHasNoVault, FundExists, RequestAfterPayout, Requested
<1>3. ASSUME NEW i \in Investors, NEW shares \in 1 .. totalShares,
             RequestWithdraw(i, shares)
      PROVE  Rest'
  BY <1>3 DEF RequestWithdraw, TypeOK, SupplyCovered, EmptyFundHasNoVault, FundExists,
              RequestAfterPayout, Requested
<1>4. ASSUME NEW i \in Investors, CancelWithdraw(i) PROVE Rest'
  BY <1>4 DEF CancelWithdraw, TypeOK, SupplyCovered, EmptyFundHasNoVault, FundExists,
              RequestAfterPayout, Requested, NoRequest
<1>5. ASSUME NEW i \in Investors, ExecuteWithdraw(i) PROVE Rest'
  <2> DEFINE shares == request[i].shares
             gross == GrossPayout(shares, Nav, totalShares)
  <2>1. shares \in Nat
    BY DEF TypeOK
  <2>2. gross \in Nat /\ (shares = totalShares => gross = Nav)
    BY <1>5, <2>1, GrossBound DEF ExecuteWithdraw, SharesAtHand, SharesCounted
  <2>3. /\ totalShares >= shares /\ supply >= shares /\ vault >= gross
        /\ totalShares' = totalShares - shares /\ supply' = supply - shares
        /\ vault' = vault - gross
        /\ request' = [request EXCEPT ![i] = NoRequest]
        /\ lastPaid' = [lastPaid EXCEPT ![i] = now]
        /\ UNCHANGED <<now, timelock, assets>>
        /\ FundExists
    BY <1>5 DEF ExecuteWithdraw, SharesAtHand, SharesCounted, VaultAlive
  <2>a. assets \in Nat
    BY <1>5 DEF ExecuteWithdraw, NavReadable, TypeOK
  <2> HIDE DEF shares, gross
  <2>4. SupplyCovered'
    BY <2>1, <2>3 DEF SupplyCovered, TypeOK
  <2>5. EmptyFundHasNoVault'
    <3> SUFFICES ASSUME totalShares' = 0 PROVE vault' = 0
      BY DEF EmptyFundHasNoVault
    <3>1. shares = totalShares
      BY <2>1, <2>3 DEF TypeOK
    <3>2. gross = vault + assets
      BY <2>2, <3>1 DEF Nav
    <3> QED
      BY <2>2, <2>3, <2>a, <3>2 DEF TypeOK
  <2>6. \A j \in Investors : lastPaid'[j] <= now'
    BY <2>3 DEF TypeOK
  <2>7. RequestAfterPayout'
    BY <2>3 DEF TypeOK, RequestAfterPayout, Requested, NoRequest
  <2> QED
    BY <2>3, <2>4, <2>5, <2>6, <2>7 DEF FundExists
<1>6. ASSUME NEW i \in Investors, NEW j \in Investors, NEW shares \in 1 .. totalShares,
             TransferShares(i, j, shares)
      PROVE  Rest'
  BY <1>6 DEF TransferShares, SupplyCovered, EmptyFundHasNoVault, FundExists,
              RequestAfterPayout, Requested
<1>7. ASSUME NEW i \in Investors, NEW shares \in 1 .. totalShares, BurnShares(i, shares)
      PROVE  Rest'
  BY <1>7 DEF BurnShares, TypeOK, SupplyCovered, EmptyFundHasNoVault, FundExists,
              RequestAfterPayout, Requested
<1>8. ASSUME NEW lamports \in VaultBalances, NEW value \in AssetValues \cup {NoValue},
             PortfolioMoves(lamports, value)
      PROVE  Rest'
  <2>1. totalShares # 0
    BY <1>8 DEF PortfolioMoves, VaultAlive, EmptyFundHasNoVault, TypeOK
  <2> QED
    BY <1>8, <2>1 DEF PortfolioMoves, VaultAlive, SupplyCovered, EmptyFundHasNoVault,
                      FundExists, RequestAfterPayout, Requested
<1>9. ASSUME NEW value \in AssetValues \cup {NoValue}, AssetsRevalued(value) PROVE Rest'
  BY <1>9 DEF AssetsRevalued, SupplyCovered, EmptyFundHasNoVault, FundExists,
              RequestAfterPayout, Requested
<1>10. CASE Tick
  BY <1>10 DEF Tick, TypeOK, SupplyCovered, EmptyFundHasNoVault, FundExists,
               RequestAfterPayout, Requested
<1>11. CASE UNCHANGED vars
  BY <1>11 DEF SupplyCovered, EmptyFundHasNoVault, FundExists, RequestAfterPayout,
               Requested
<1> HIDE DEF Rest
<1> QED
  BY <1>1, <1>2, <1>3, <1>4, <1>5, <1>6, <1>7, <1>8, <1>9, <1>10, <1>11 DEF Next

\* The invariant holds in every reachable state.
LEMMA InvHolds == Spec => []Inv
  BY InitInv, NextInv, PTL DEF Spec

\* Every share token in circulation stays covered by total_shares.
THEOREM SupplyCoveredHolds == Spec => []SupplyCovered
<1>1. Inv => SupplyCovered
  BY DEF Inv
<1> QED
  BY <1>1, InvHolds, PTL

\* The payout of the last share takes everything the NAV counts, whatever was
\* traded, and only from the vault: at that moment nothing it counts is outside it.
THEOREM LastShareTakesAllHolds == Spec => LastShareTakesAll
<1> DEFINE TakesAll == totalShares > 0 /\ totalShares' = 0 => Nav' = 0
<1>1. ASSUME Inv, [Next]_vars PROVE TakesAll
  <2> SUFFICES ASSUME totalShares > 0, totalShares' = 0 PROVE Nav' = 0
    OBVIOUS
  <2>0. totalShares \in Nat /\ vault \in Nat
    BY <1>1 DEF Inv, TypeOK
  <2>1. ASSUME NEW deposit \in DepositAmounts, NEW lock \in MinTimelock .. MaxTimelock,
               InitializeFund(deposit, lock)
        PROVE  FALSE
    BY <1>1, <2>1 DEF Inv, InitializeFund, Mint
  <2>2. ASSUME NEW i \in Investors, NEW amount \in DepositAmounts, Deposit(i, amount)
        PROVE  FALSE
    <3> DEFINE minted == SharesToMint(amount - FeeOf(amount, DepositFeeBps), totalShares, Nav)
    <3>1. minted \in Nat
      BY <1>1, <2>2, FeeInAmount, MintedBound, SharesAssumption DEF Inv, Deposit, Mint
    <3>2. totalShares' = totalShares + minted
      BY <2>2 DEF Deposit, Mint
    <3> HIDE DEF minted
    <3> QED
      BY <2>0, <3>1, <3>2
  <2>3. ASSUME NEW i \in Investors, ExecuteWithdraw(i) PROVE Nav' = 0
    <3> DEFINE shares == request[i].shares
               gross == GrossPayout(shares, Nav, totalShares)
    <3>1. shares \in Nat
      BY <1>1 DEF Inv, TypeOK
    <3>0. NavReadable /\ assets \in Nat
      BY <1>1, <2>3 DEF Inv, TypeOK, ExecuteWithdraw, NavReadable
    <3>2. gross \in Nat /\ (shares = totalShares => gross = Nav)
      BY <1>1, <3>0, <3>1, GrossBound DEF Inv
    <3>3. /\ vault >= gross
          /\ vault' = vault - gross /\ assets' = assets
          /\ totalShares' = totalShares - shares
      BY <2>3 DEF ExecuteWithdraw, SharesAtHand, SharesCounted
    <3> HIDE DEF shares, gross
    <3>4. gross = vault + assets
      BY <2>0, <3>1, <3>2, <3>3 DEF Nav
    <3> QED
      BY <2>0, <3>0, <3>3, <3>4 DEF Nav
  <2> QED
    BY <1>1, <2>1, <2>2, <2>3 DEF Next, RequestWithdraw, CancelWithdraw, TransferShares,
                                  BurnShares, PortfolioMoves, AssetsRevalued, Tick
<1> QED
  BY <1>1, InvHolds, PTL DEF Spec, LastShareTakesAll

\* Neither deposits nor withdrawals dilute the shares of anybody else: the NAV
\* per share never falls when total_shares changes.
THEOREM NoDilutionHolds == Spec => NoDilution
<1> DEFINE Kept == totalShares' # totalShares /\ totalShares > 0
                        => Nav' * totalShares >= Nav * totalShares'
<1>1. ASSUME Inv, [Next]_vars PROVE Kept
  <2> SUFFICES ASSUME totalShares' # totalShares, totalShares > 0
               PROVE  Nav' * totalShares >= Nav * totalShares'
    OBVIOUS
  <2>0. totalShares \in Nat /\ vault \in Nat
    BY <1>1 DEF Inv, TypeOK
  <2>a. ASSUME NavReadable PROVE assets \in Nat /\ Nav \in Nat
    BY <1>1, <2>0, <2>a DEF Inv, TypeOK, Nav, NavReadable
  <2>1. ASSUME NEW deposit \in DepositAmounts, NEW lock \in MinTimelock .. MaxTimelock,
               InitializeFund(deposit, lock)
        PROVE  Nav' * totalShares >= Nav * totalShares'
    BY <1>1, <2>1 DEF Inv, InitializeFund, Mint
  <2>2. ASSUME NEW i \in Investors, NEW amount \in DepositAmounts, Deposit(i, amount)
        PROVE  Nav' * totalShares >= Nav * totalShares'
    <3> DEFINE net == amount - FeeOf(amount, DepositFeeBps)
               minted == SharesToMint(net, totalShares, Nav)
    <3>1. net \in Nat
      BY FeeInAmount, SharesAssumption
    <3>2. minted \in Nat /\ minted * Nav <= net * totalShares
      BY <1>1, <2>2, <3>1, MintedBound DEF Inv, Deposit, Mint
    <3>0. assets \in Nat /\ Nav \in Nat
      BY <2>2, <2>a DEF Deposit
    <3>3. Nav' = Nav + net /\ totalShares' = totalShares + minted
      BY <2>2, <2>0, <3>0, <3>1 DEF Deposit, Mint, Nav
    <3> HIDE DEF net, minted
    <3> QED
      BY <2>0, <3>0, <3>1, <3>2, <3>3, MintKeepsValue
  <2>3. ASSUME NEW i \in Investors, ExecuteWithdraw(i)
        PROVE  Nav' * totalShares >= Nav * totalShares'
    <3> DEFINE shares == request[i].shares
               gross == GrossPayout(shares, Nav, totalShares)
    <3>1. shares \in Nat
      BY <1>1 DEF Inv, TypeOK
    <3>0. NavReadable /\ assets \in Nat /\ Nav \in Nat
      BY <2>3, <2>a DEF ExecuteWithdraw
    <3>2. gross \in Nat /\ gross * totalShares <= shares * Nav
      BY <1>1, <3>0, <3>1, GrossBound DEF Inv
    <3>3. Nav' = Nav - gross /\ totalShares' = totalShares - shares
      BY <2>3, <2>0, <3>0, <3>2 DEF ExecuteWithdraw, SharesAtHand, SharesCounted, Nav
    <3> HIDE DEF shares, gross
    <3> QED
      BY <2>0, <3>0, <3>1, <3>2, <3>3, PayoutKeepsValue
  <2> QED
    BY <1>1, <2>1, <2>2, <2>3 DEF Next, RequestWithdraw, CancelWithdraw, TransferShares,
                                  BurnShares, PortfolioMoves, AssetsRevalued, Tick
<1> QED
  BY <1>1, InvHolds, PTL DEF Spec, NoDilution

\* Between two payouts to the same investor a whole timelock passes, however
\* often the request is rewritten or cancelled in between.
THEOREM PayoutsSpacedHolds == Spec => PayoutsSpaced
<1> DEFINE Spaced == \A i \in Investors : totalShares' < totalShares /\ held'[i] < held[i]
                        => now >= lastPaid[i] + timelock
<1>1. ASSUME Inv, [Next]_vars PROVE Spaced
  <2> SUFFICES ASSUME NEW i \in Investors,
                      totalShares' < totalShares, held'[i] < held[i]
               PROVE  now >= lastPaid[i] + timelock
    OBVIOUS
  <2>0. TypeOK /\ TypeOK'
    BY <1>1, NextTypeOK DEF Inv
  <2>1. ASSUME NEW deposit \in DepositAmounts, NEW lock \in MinTimelock .. MaxTimelock,
               InitializeFund(deposit, lock)
        PROVE  FALSE
    <3>1. held'[Manager] >= held[Manager] /\ (i # Manager => held'[i] = held[i])
      <4>1. /\ Manager \in Investors
            /\ held' = [held EXCEPT ![Manager] =
                            @ + (deposit - FeeOf(deposit, DepositFeeBps))]
            /\ deposit - FeeOf(deposit, DepositFeeBps) > 0
        BY <2>1, SharesAssumption DEF InitializeFund, Mint
      <4>2. deposit - FeeOf(deposit, DepositFeeBps) \in Nat
        BY FeeInAmount, SharesAssumption
      <4> QED
        BY <2>0, <4>1, <4>2 DEF TypeOK
    <3> QED
      BY <2>0, <3>1, SharesAssumption DEF TypeOK
  <2>2. ASSUME NEW j \in Investors, NEW amount \in DepositAmounts, Deposit(j, amount)
        PROVE  FALSE
    <3> DEFINE minted == SharesToMint(amount - FeeOf(amount, DepositFeeBps), totalShares, Nav)
    <3>1. minted > 0 /\ minted \in Nat
      BY <2>0, <2>2, FeeInAmount, MintedBound, SharesAssumption DEF Deposit, Mint
    <3>2. totalShares' = totalShares + minted
      BY <2>2 DEF Deposit, Mint
    <3> HIDE DEF minted
    <3> QED
      BY <2>0, <3>1, <3>2 DEF TypeOK
  <2>3. ASSUME NEW j \in Investors, ExecuteWithdraw(j)
        PROVE  now >= lastPaid[i] + timelock
    <3>1. i = j
      BY <2>3, <2>0 DEF ExecuteWithdraw, SharesAtHand, SharesCounted, TypeOK
    <3>2. request[i].ts >= lastPaid[i] /\ now >= request[i].ts + timelock /\ FundExists
      BY <1>1, <2>3, <3>1
      DEF Inv, RequestAfterPayout, ExecuteWithdraw, SharesAtHand, SharesCounted, Matured, VaultAlive
    <3>3. timelock \in Nat /\ now \in Nat /\ request[i].ts \in Nat /\ lastPaid[i] \in Nat
      BY <2>0, <3>2 DEF TypeOK, FundExists
    <3> QED
      BY <3>2, <3>3
  <2> QED
    BY <1>1, <2>0, <2>1, <2>2, <2>3
    DEF Next, RequestWithdraw, CancelWithdraw, TransferShares, BurnShares,
        PortfolioMoves, AssetsRevalued, Tick, TypeOK
<1> QED
  BY <1>1, InvHolds, PTL DEF Spec, PayoutsSpaced

-----------------------------------------------------------------------------
(* Sums over all wallets.                                                  *)

\* One balance grows.
LEMMA BalanceGrows ==
    ASSUME NEW f \in [Investors -> Nat], NEW i \in Investors, NEW n \in Nat
    PROVE  SumFunction([f EXCEPT ![i] = @ + n]) = SumFunction(f) + n /\ SumFunction(f) \in Nat
<1>1. f[i] \in Nat /\ f[i] + n \in Nat /\ IsFiniteSet(Investors)
  BY SharesAssumption
<1>2. /\ SumFunction([f EXCEPT ![i] = f[i] + n]) = SumFunction(f) + (f[i] + n) - f[i]
      /\ SumFunction(f) \in Nat
  BY <1>1, SumExcept
<1> QED
  BY <1>1, <1>2

\* One balance falls, by no more than it holds.
LEMMA BalanceFalls ==
    ASSUME NEW f \in [Investors -> Nat], NEW i \in Investors, NEW n \in Nat, n <= f[i]
    PROVE  SumFunction([f EXCEPT ![i] = @ - n]) = SumFunction(f) - n /\ SumFunction(f) \in Nat
<1>1. f[i] \in Nat /\ f[i] - n \in Nat /\ IsFiniteSet(Investors)
  BY SharesAssumption
<1>2. /\ SumFunction([f EXCEPT ![i] = f[i] - n]) = SumFunction(f) + (f[i] - n) - f[i]
      /\ SumFunction(f) \in Nat
  BY <1>1, SumExcept
<1> QED
  BY <1>1, <1>2

\* No share token exists but those the mint counts.
LEMMA NextSharesAddUp ==
    ASSUME Inv, [Next]_vars, SumFunction(held) = supply
    PROVE  (SumFunction(held) = supply)'
<1>0. TypeOK /\ held \in [Investors -> Nat] /\ supply \in Nat
  BY DEF Inv, TypeOK
<1>1. ASSUME NEW i \in Investors, NEW n \in Nat, Mint(i, n) PROVE (SumFunction(held) = supply)'
  BY <1>0, <1>1, BalanceGrows DEF Mint
<1>2. ASSUME NEW deposit \in DepositAmounts, NEW lock \in MinTimelock .. MaxTimelock,
             InitializeFund(deposit, lock)
      PROVE  (SumFunction(held) = supply)'
  <2>1. deposit - FeeOf(deposit, DepositFeeBps) \in Nat /\ Manager \in Investors
    BY FeeInAmount, SharesAssumption
  <2> QED
    BY <1>1, <1>2, <2>1 DEF InitializeFund
<1>3. ASSUME NEW i \in Investors, NEW amount \in DepositAmounts, Deposit(i, amount)
      PROVE  (SumFunction(held) = supply)'
  <2>1. SharesToMint(amount - FeeOf(amount, DepositFeeBps), totalShares, Nav) \in Nat
    BY <1>0, <1>3, FeeInAmount, MintedBound, SharesAssumption DEF Deposit
  <2> QED
    BY <1>1, <1>3, <2>1 DEF Deposit
<1>4. ASSUME NEW i \in Investors, ExecuteWithdraw(i) PROVE (SumFunction(held) = supply)'
  <2>1. request[i].shares \in Nat
    BY <1>0 DEF TypeOK
  <2>2. /\ held' = [held EXCEPT ![i] = @ - request[i].shares] /\ supply' = supply - request[i].shares
        /\ request[i].shares <= held[i]
    BY <1>0, <1>4, <2>1 DEF ExecuteWithdraw, SharesAtHand, SharesCounted
  <2> QED
    BY <1>0, <2>1, <2>2, BalanceFalls
<1>5. ASSUME NEW i \in Investors, NEW j \in Investors, NEW shares \in 1 .. totalShares,
             TransferShares(i, j, shares)
      PROVE  (SumFunction(held) = supply)'
  <2> DEFINE between == [held EXCEPT ![i] = @ - shares]
  <2>1. i # j /\ shares \in Nat /\ shares <= held[i] /\ supply' = supply
    BY <1>0, <1>5 DEF TransferShares, TypeOK
  <2>2. held' = [between EXCEPT ![j] = @ + shares] /\ between \in [Investors -> Nat]
    <3>1. held[i] - shares \in Nat
      BY <1>0, <2>1
    <3>2. between \in [Investors -> Nat]
      BY <1>0, <3>1
    <3>3. held' = [between EXCEPT ![j] = @ + shares]
      BY <1>5 DEF TransferShares
    <3> QED
      BY <3>2, <3>3
  <2>3. SumFunction(between) = SumFunction(held) - shares
    BY <1>0, <2>1, BalanceFalls
  <2> HIDE DEF between
  <2>4. SumFunction(held') = SumFunction(between) + shares
    BY <2>1, <2>2, BalanceGrows
  <2> QED
    BY <1>0, <2>1, <2>3, <2>4
<1>6. ASSUME NEW i \in Investors, NEW shares \in 1 .. totalShares, BurnShares(i, shares)
      PROVE  (SumFunction(held) = supply)'
  <2>1. /\ held' = [held EXCEPT ![i] = @ - shares] /\ supply' = supply - shares
        /\ shares \in Nat /\ shares <= held[i]
    BY <1>0, <1>6 DEF BurnShares, TypeOK
  <2> QED
    BY <1>0, <2>1, BalanceFalls
<1>7. ASSUME UNCHANGED <<held, supply>> PROVE (SumFunction(held) = supply)'
  BY <1>7
<1>8. ASSUME NEW i \in Investors, NEW shares \in 1 .. totalShares, RequestWithdraw(i, shares)
      PROVE  UNCHANGED <<held, supply>>
  BY <1>8 DEF RequestWithdraw
<1>9. CASE UNCHANGED vars
  BY <1>7, <1>9
<1> QED
  BY <1>2, <1>3, <1>4, <1>5, <1>6, <1>7, <1>8, <1>9
  DEF Next, CancelWithdraw, PortfolioMoves, AssetsRevalued, Tick

\* The share tokens of all wallets are the mint's supply, and total_shares covers them:
\* no instruction, transfer or burn mints or loses a share unseen.
THEOREM SharesAddUpHolds == Spec => []SharesAddUp
<1>1. Init => SumFunction(held) = supply
  <2> SUFFICES ASSUME Init PROVE SumFunction(held) = supply
    OBVIOUS
  <2>1. held \in [Investors -> Nat] /\ (\A i \in Investors : held[i] = 0) /\ supply = 0
    BY DEF Init
  <2> QED
    BY <2>1, SumZero, SharesAssumption
<1>2. Inv /\ SumFunction(held) = supply /\ [Next]_vars => (SumFunction(held) = supply)'
  BY NextSharesAddUp
<1>3. Inv /\ SumFunction(held) = supply => SharesAddUp
  BY DEF Inv, SharesAddUp
<1> QED
  BY <1>1, <1>2, <1>3, InvHolds, PTL DEF Spec

\* The investors with an open request.
Requesters == {i \in Investors : Requested(i)}

\* There are finitely many of them.
LEMMA RequestersFinite == IsFiniteSet(Requesters) /\ Cardinality(Requesters) \in Nat
  BY SharesAssumption, FS_Subset, FS_CardinalityType DEF Requesters

\* A request that is closed is one request less.
LEMMA RequestCloses ==
    ASSUME TypeOK, NEW i \in Investors, Requested(i), request' = [request EXCEPT ![i] = NoRequest]
    PROVE  /\ Cardinality(Requesters') = Cardinality(Requesters) - 1
           /\ Cardinality(Requesters') \in Nat /\ Cardinality(Requesters) \in Nat
<1>1. Requesters' = Requesters \ {i} /\ i \in Requesters
  BY DEF TypeOK, Requesters, Requested, NoRequest
<1> QED
  BY <1>1, RequestersFinite, FS_RemoveElement, FS_CardinalityType

\* Fees, rounding and the rent of requests included, no instruction of the ledger creates
\* or loses a lamport.
THEOREM LamportsConservedHolds == Spec => LamportsConserved
<1> DEFINE Conserved == totalShares' # totalShares \/ request' # request => Lamports' = Lamports
<1>1. ASSUME Inv, [Next]_vars PROVE Conserved
  <2> SUFFICES ASSUME totalShares' # totalShares \/ request' # request PROVE Lamports' = Lamports
    OBVIOUS
  <2>0. /\ TypeOK /\ totalShares \in Nat /\ vault \in Nat /\ treasury \in Nat
        /\ wallet \in [Investors -> Nat] /\ RequestRent \in Nat /\ VaultRent \in Nat
        /\ SumFunction(wallet) \in Nat
        /\ Cardinality(Requesters) \in Nat
    BY <1>1, SharesAssumption, SumFunctionNat, RequestersFinite DEF Inv, TypeOK
  <2> DEFINE c == Cardinality(Requesters)
  <2>a. Lamports = SumFunction(wallet) + treasury + vault + RequestRent * c
    BY DEF Lamports, Requesters
  <2>b. Lamports' = SumFunction(wallet') + treasury' + vault' + RequestRent * c'
    BY DEF Lamports, Requesters
  <2>c. request' = request => c' = c
    BY DEF Requesters, Requested
  <2> HIDE DEF c
  <2>1. ASSUME NEW deposit \in DepositAmounts, NEW lock \in MinTimelock .. MaxTimelock,
               InitializeFund(deposit, lock)
        PROVE  Lamports' = Lamports
    <3> DEFINE fee == FeeOf(deposit, DepositFeeBps)
    <3>1. fee \in Nat /\ deposit \in Nat /\ Manager \in Investors
      BY FeeInAmount, SharesAssumption
    <3>2. /\ vault = 0 /\ vault' = VaultRent + (deposit - fee) /\ treasury' = treasury + fee
          /\ wallet' = [wallet EXCEPT ![Manager] = @ - deposit - VaultRent]
          /\ wallet[Manager] >= deposit + VaultRent /\ request' = request
      BY <1>1, <2>1 DEF InitializeFund, Inv
    <3>3. wallet' = [wallet EXCEPT ![Manager] = @ - (deposit + VaultRent)]
      <4>1. wallet[Manager] - deposit - VaultRent = wallet[Manager] - (deposit + VaultRent)
        BY <2>0, <3>1
      <4> QED
        BY <3>2, <4>1, Zenon
    <3>4. SumFunction(wallet') = SumFunction(wallet) - (deposit + VaultRent)
      <4>1. deposit + VaultRent \in Nat /\ deposit + VaultRent <= wallet[Manager]
        BY <2>0, <3>1, <3>2
      <4> QED
        BY <2>0, <3>1, <3>3, <4>1, BalanceFalls
    <3> HIDE DEF fee
    <3> QED
      BY <2>0, <2>a, <2>b, <2>c, <3>1, <3>2, <3>4
  <2>2. ASSUME NEW i \in Investors, NEW amount \in DepositAmounts, Deposit(i, amount)
        PROVE  Lamports' = Lamports
    <3> DEFINE fee == FeeOf(amount, DepositFeeBps)
    <3>1. fee \in Nat /\ amount \in Nat
      BY FeeInAmount, SharesAssumption
    <3>2. /\ vault' = vault + (amount - fee) /\ treasury' = treasury + fee
          /\ wallet' = [wallet EXCEPT ![i] = @ - amount]
          /\ wallet[i] >= amount /\ request' = request
      BY <2>2 DEF Deposit
    <3>3. SumFunction(wallet') = SumFunction(wallet) - amount
      BY <2>0, <3>1, <3>2, BalanceFalls
    <3> HIDE DEF fee
    <3> QED
      BY <2>0, <2>a, <2>b, <2>c, <3>1, <3>2, <3>3
  <2>3. ASSUME NEW i \in Investors, NEW shares \in 1 .. totalShares, RequestWithdraw(i, shares)
        PROVE  Lamports' = Lamports
    <3>1. /\ request' = [request EXCEPT ![i] = [shares |-> shares, ts |-> now]] /\ shares > 0
          /\ vault' = vault /\ treasury' = treasury
      BY <2>3 DEF RequestWithdraw
    <3>2. Requesters' = Requesters \cup {i}
      BY <2>0, <3>1 DEF TypeOK, Requesters, Requested
    <3>3. CASE Requested(i)
      <4>1. Requesters' = Requesters /\ wallet' = wallet
        BY <2>3, <3>2, <3>3 DEF RequestWithdraw, Requesters
      <4> QED
        BY <2>a, <2>b, <3>1, <4>1 DEF c
    <3>4. CASE ~Requested(i)
      <4>1. wallet' = [wallet EXCEPT ![i] = @ - RequestRent] /\ wallet[i] >= RequestRent
        BY <2>3, <3>4 DEF RequestWithdraw
      <4>2. SumFunction(wallet') = SumFunction(wallet) - RequestRent
        BY <2>0, <4>1, BalanceFalls
      <4>3. i \notin Requesters
        BY <3>4 DEF Requesters
      <4>4. c' = c + 1 /\ c \in Nat
        BY <2>0, <3>2, <4>3, RequestersFinite, FS_AddElement DEF c
      <4>5. RequestRent * c' = RequestRent * c + RequestRent
        BY <2>0, <4>4
      <4>6. RequestRent * c \in Nat
        BY <2>0, <4>4
      <4> QED
        BY <2>0, <2>a, <2>b, <3>1, <4>2, <4>5, <4>6
    <3> QED
      BY <3>3, <3>4
  <2>4. ASSUME NEW i \in Investors, CancelWithdraw(i) PROVE Lamports' = Lamports
    <3>1. /\ Requested(i) /\ request' = [request EXCEPT ![i] = NoRequest]
          /\ wallet' = [wallet EXCEPT ![i] = @ + RequestRent]
          /\ vault' = vault /\ treasury' = treasury
      BY <2>4 DEF CancelWithdraw
    <3>2. SumFunction(wallet') = SumFunction(wallet) + RequestRent
      BY <2>0, <3>1, BalanceGrows
    <3>3. c' = c - 1 /\ c \in Nat /\ c' \in Nat
      BY <2>0, <3>1, RequestCloses DEF c
    <3>4. RequestRent * c' = RequestRent * c - RequestRent /\ RequestRent * c \in Nat
      BY <2>0, <3>3
    <3> QED
      BY <2>0, <2>a, <2>b, <3>1, <3>2, <3>4
  <2>5. ASSUME NEW i \in Investors, ExecuteWithdraw(i) PROVE Lamports' = Lamports
    <3> DEFINE gross == GrossPayout(request[i].shares, Nav, totalShares)
               fee == FeeOf(gross, WithdrawFeeBps)
    <3>1. gross \in Nat
      BY <2>0, <2>5, GrossBound DEF ExecuteWithdraw, SharesCounted, TypeOK
    <3>2. fee \in Nat /\ fee <= gross
      BY <3>1, FeeInAmount, SharesAssumption
    <3>3. /\ Requested(i) /\ request' = [request EXCEPT ![i] = NoRequest]
          /\ wallet' = [wallet EXCEPT ![i] = @ + (gross - fee) + RequestRent]
          /\ vault' = vault - gross /\ treasury' = treasury + fee
      BY <2>5 DEF ExecuteWithdraw, Matured
    <3> HIDE DEF gross, fee
    <3>4. (gross - fee) + RequestRent \in Nat
      BY <2>0, <3>1, <3>2
    <3>5. wallet' = [wallet EXCEPT ![i] = @ + ((gross - fee) + RequestRent)]
      <4>1. wallet[i] + (gross - fee) + RequestRent = wallet[i] + ((gross - fee) + RequestRent)
        BY <2>0, <3>1, <3>2
      <4> QED
        BY <3>3, <4>1, Zenon
    <3>6. SumFunction(wallet') = SumFunction(wallet) + ((gross - fee) + RequestRent)
      BY <2>0, <3>4, <3>5, BalanceGrows
    <3>7. c' = c - 1 /\ c \in Nat /\ c' \in Nat
      BY <2>0, <3>3, RequestCloses DEF c
    <3>8. RequestRent * c' = RequestRent * c - RequestRent /\ RequestRent * c \in Nat
      BY <2>0, <3>7
    <3> QED
      BY <2>0, <2>a, <2>b, <3>1, <3>2, <3>3, <3>6, <3>8
  <2> QED
    BY <1>1, <2>1, <2>2, <2>3, <2>4, <2>5
    DEF Next, TransferShares, BurnShares, PortfolioMoves, AssetsRevalued, Tick
<1> QED
  BY <1>1, InvHolds, PTL DEF Spec, LamportsConserved
=============================================================================
