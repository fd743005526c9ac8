---------------------------- MODULE InvestedFund ----------------------------
(***************************************************************************)
(* One fund with both of its sides: investors who deposit and withdraw at  *)
(* the NAV, and a manager who trades through orders on the same vault.     *)
(*                                                                         *)
(* Shares knows trading as one number, `assets`.  Here that number is what *)
(* compute_nav_lamports makes of the token vaults and the orders for the   *)
(* whitelist triplets that the caller has assembled (`shown`), and this    *)
(* module shows that the fund still implements Shares: whatever Shares     *)
(* promises (and SharesProofs proves) holds with real orders behind the    *)
(* NAV, at the NAV that is shown.  Where the fund's count of its listings  *)
(* is exact, that NAV is the whole one.                                    *)
(***************************************************************************)
EXTENDS TradingFund

CONSTANTS
    Investors, Manager, MinManagerDeposit, MinInvestorDeposit, DepositFeeBps,
    WithdrawFeeBps, MinTimelock, MaxTimelock, RequestRent, Wallet,
    DepositAmounts, VaultBalances, AssetValues,
    RequestAmounts   \* shares an investor may ask for

\* What Shares assumes of them.
ASSUME InvestedFundAssumption ==
    /\ IsFiniteSet(Investors) /\ Manager \in Investors
    /\ {MinManagerDeposit, MinInvestorDeposit} \subseteq Nat
    /\ DepositFeeBps \in 0 .. BpsDenominator
    /\ WithdrawFeeBps \in 0 .. BpsDenominator
    /\ MinTimelock \in Nat /\ MaxTimelock \in Nat
    /\ RequestRent \in Nat \ {0}
    /\ Wallet \in Nat
    /\ DepositAmounts \subseteq Nat
    /\ VaultBalances \subseteq Nat /\ AssetValues \subseteq Nat

VARIABLES
    timelock, totalShares, supply, held, request, treasury, wallet, lastPaid,
    shown   \* the mints of the whitelist triplets the next caller brings along

ledgerVars == <<timelock, totalShares, supply, held, request, treasury, wallet, lastPaid>>
tradeVars == <<tokens, whitelists, nextOrderId, oracle, limitVars, dcaVars>>
investedVars == <<tradingVars, ledgerVars, shown>>

\* The NoValue of Shares.
NoAssets == -1

\* What compute_nav_lamports adds to the vault's lamports, or that it fails.
Assets == IF Acceptable(shown) THEN NavOf(shown) - vault ELSE NoAssets

Ledger == INSTANCE Shares WITH assets <- Assets

\* No fund yet: initialize_fund creates the vault and the counters.
InvestedInit ==
    /\ NothingHeld /\ vault = 0
    /\ LimitInit /\ DcaInit
    /\ timelock = Ledger!NoFund
    /\ totalShares = 0 /\ supply = 0 /\ treasury = 0
    /\ held = [i \in Investors |-> 0]
    /\ request = [i \in Investors |-> Ledger!NoRequest]
    /\ wallet = [i \in Investors |-> Wallet]
    /\ lastPaid = [i \in Investors |-> 0]
    /\ shown = {}

-----------------------------------------------------------------------------
\* The caller of the next deposit or withdrawal assembles its remaining accounts,
\* for the fund as it is now.  Any order, listing or price may come before the call.
ChooseAccounts(mints) ==
    /\ Ledger!FundExists
    /\ Acceptable(mints)
    /\ shown' = mints
    /\ UNCHANGED <<tradingVars, ledgerVars>>

\* The instructions of the ledger move no token and no order.
InvestedInitializeFund(deposit, lock) ==
    UNCHANGED <<tradeVars, shown>> /\ Ledger!InitializeFund(deposit, lock)

\* deposit and execute_withdraw, at the NAV of the accounts shown, which must be
\* acceptable (NavReadable of the ledger).
InvestedDeposit(i, amount) ==
    UNCHANGED <<tradeVars, shown>> /\ Ledger!Deposit(i, amount)

InvestedExecuteWithdraw(i) ==
    UNCHANGED <<tradeVars, shown>> /\ Ledger!ExecuteWithdraw(i)

\* Requests need no NAV.
InvestedRequests(i) ==
    /\ UNCHANGED <<tradeVars, shown>>
    /\ \/ \E shares \in (1 .. totalShares) \cap RequestAmounts : Ledger!RequestWithdraw(i, shares)
       \/ Ledger!CancelWithdraw(i)

\* The instructions of the trading side, the oracles and the clock.  A listing in
\* fund scope takes the fund's state account, and so an existing fund.
InvestedTrading ==
    /\ TradingNext
    /\ Ledger!FundExists \/ listed' = listed
    /\ UNCHANGED <<ledgerVars, shown>>

InvestedNext ==
    \/ \E mints \in SUBSET Mints : ChooseAccounts(mints)
    \/ \E deposit \in DepositAmounts, lock \in MinTimelock .. MaxTimelock :
            InvestedInitializeFund(deposit, lock)
    \/ \E i \in Investors, amount \in DepositAmounts : InvestedDeposit(i, amount)
    \/ \E i \in Investors : InvestedExecuteWithdraw(i)
    \/ \E i \in Investors : InvestedRequests(i)
    \/ InvestedTrading

InvestedSpec == InvestedInit /\ [][InvestedNext]_investedVars

-----------------------------------------------------------------------------
(* Properties.                                                             *)

\* Seen by its investors, a fund with orders is a share ledger: every listing,
\* removal, order, fill and price change, and every choice of accounts by a caller,
\* is a step that Shares allows its environment, none of them touches shares,
\* requests or a vault that is gone, and no payout is made at a NAV that could not
\* have been computed.
ImplementsShares == Ledger!Spec

\* While enabled_token_count is exact, no deposit and no payout lowers what a share
\* of the whole fund is worth, whatever accounts the caller brings along: every
\* token and every order counts.  (README.md:280; the run PartialNav shows what is
\* left of it when remove_token has lowered the count.)
WholeFundUndiluted ==
    [][totalShares' # totalShares /\ totalShares > 0 /\ enabledCount = Cardinality(Listed)
        => Nav' * totalShares >= Nav * totalShares']_investedVars

\* The payout of the last share leaves no order behind that still holds SOL, and,
\* while enabled_token_count is exact, no listed token worth a lamport: what orders
\* hold counts for every payout.
LastShareEmptiesOrders ==
    [][totalShares > 0 /\ totalShares' = 0
        => /\ \A i \in OpenLimits : limit[i].sol = 0
           /\ \A i \in OpenDcas : dca[i].side = "SELL"
           /\ enabledCount = Cardinality(Listed)
                => \A m \in Listed : LamportsFor(tokens[m], listed[m]) = 0]_investedVars
=============================================================================
