------------------------------- MODULE Shares -------------------------------
(***************************************************************************)
(* The share ledger of one fund: who may turn lamports into shares and     *)
(* shares into lamports, at what price, and when.                          *)
(*                                                                         *)
(* Modelled instructions: initialize_fund, deposit, request_withdraw,      *)
(* cancel_withdraw, execute_withdraw.  The rest of the program (trades,    *)
(* orders, oracle prices) is seen here only through what it does to the    *)
(* value of the fund: PortfolioMoves changes the vault's lamports and the  *)
(* value of everything else, AssetsRevalued that value only (InvestedFund  *)
(* shows that this is all they do).  That value is the one that            *)
(* compute_nav_lamports makes of the accounts the next caller gives it, or *)
(* none when it fails: a listing, a count, an oracle or a price it refuses. *)
(* Shares are SPL tokens, so their holders move and burn them without this *)
(* program (TransferShares, BurnShares).                                   *)
(***************************************************************************)
EXTENDS FundMath, FiniteSets

CONSTANTS
    Investors,       \* wallets that hold shares, the manager among them
    Manager,         \* the wallet that initializes the fund
    MinManagerDeposit, MinInvestorDeposit,   \* lamports
    DepositFeeBps, WithdrawFeeBps,
    MinTimelock, MaxTimelock,                \* seconds
    VaultRent,       \* rent-exempt minimum of the fund vault account
    RequestRent,     \* rent-exempt minimum of a withdraw request account
    Wallet,          \* lamports each wallet starts with
    \* bounds of the instance that TLC explores
    DepositAmounts,  \* amounts a depositor may name
    VaultBalances,   \* lamports a trade may leave in the vault
    AssetValues,     \* values the fund's other assets may have
    MaxTime          \* the clock stops here

ASSUME SharesAssumption ==
    /\ IsFiniteSet(Investors) /\ Manager \in Investors
    /\ {MinManagerDeposit, MinInvestorDeposit} \subseteq Nat
    /\ DepositFeeBps \in 0 .. BpsDenominator
    /\ WithdrawFeeBps \in 0 .. BpsDenominator
    /\ MinTimelock \in Nat /\ MaxTimelock \in Nat
    /\ VaultRent \in Nat \ {0} /\ RequestRent \in Nat \ {0}
    /\ Wallet \in Nat
    /\ DepositAmounts \subseteq Nat
    /\ VaultBalances \subseteq Nat /\ AssetValues \subseteq Nat /\ MaxTime \in Nat

VARIABLES
    now,          \* Clock::get()?.unix_timestamp
    timelock,     \* fund_state.withdraw_timelock_secs
    totalShares,  \* fund_state.total_shares
    supply,       \* the share mint's own supply
    held,         \* held[i]: i's balance of share tokens
    request,      \* request[i]: i's withdraw request account
    vault,        \* lamports of the fund vault account
    assets,       \* value in lamports of all else compute_nav_lamports adds,
                  \* NoValue when it fails
    treasury,     \* lamports of the fee treasury
    wallet,       \* wallet[i]: lamports of i
    lastPaid      \* history: when i was last paid out by execute_withdraw

ledger == <<timelock, totalShares, supply, held>>
money == <<vault, assets, treasury, wallet>>
vars == <<now, ledger, request, money, lastPaid>>

\* No fund account: initialize_fund has not run.
NoFund == -1
FundExists == timelock # NoFund

\* The fund vault account is loaded as Account<FundVault>, which fails once
\* its lamports reached 0 and the runtime purged it.
VaultAlive == FundExists /\ vault > 0

\* A transaction may not leave an account with some lamports and less than
\* its rent-exempt minimum.
RentExempt(lamports) == lamports = 0 \/ lamports >= VaultRent

\* compute_nav_lamports returns an error.
NoValue == -1
NavReadable == assets # NoValue

\* What it returns else.
Nav == vault + assets

\* A withdraw request account that does not exist.
NoRequest == [shares |-> 0, ts |-> 0]
Requested(i) == request[i].shares > 0

TypeOK ==
    /\ now \in Nat
    /\ timelock \in Nat \cup {NoFund}
    /\ totalShares \in Nat /\ supply \in Nat
    /\ held \in [Investors -> Nat]
    /\ request \in [Investors -> [shares : Nat, ts : Nat]]
    /\ vault \in Nat /\ assets \in Nat \cup {NoValue} /\ treasury \in Nat
    /\ wallet \in [Investors -> Nat]
    /\ lastPaid \in [Investors -> Nat]

Init ==
    /\ now = 0
    /\ timelock = NoFund
    /\ totalShares = 0 /\ supply = 0
    /\ held = [i \in Investors |-> 0]
    /\ request = [i \in Investors |-> NoRequest]
    /\ vault = 0 /\ assets = 0 /\ treasury = 0
    /\ wallet = [i \in Investors |-> Wallet]
    /\ lastPaid = [i \in Investors |-> 0]

-----------------------------------------------------------------------------
(* The program's instructions.                                             *)

\* Mistake (for the mutation runs): total_shares does not follow the mint.
MintUncounted(i, shares) ==
    /\ supply' = supply + shares
    /\ held' = [held EXCEPT ![i] = @ + shares]
    /\ UNCHANGED totalShares

\* mint_to, and the count the fund keeps of it.
Mint(i, shares) ==
    /\ totalShares' = totalShares + shares
    /\ supply' = supply + shares
    /\ held' = [held EXCEPT ![i] = @ + shares]

\* initialize_fund: the manager opens the fund with a first deposit.  Anchor
\* funds the vault account's rent from the manager before the handler runs;
\* that rent is part of the vault's lamports and so of every later NAV.
InitializeFund(deposit, lock) ==
    LET fee == FeeOf(deposit, DepositFeeBps)
        net == deposit - fee
    IN  /\ ~FundExists
        /\ lock >= MinTimelock /\ lock <= MaxTimelock
        /\ deposit >= MinManagerDeposit
        /\ net > 0
        /\ wallet[Manager] >= deposit + VaultRent
        /\ timelock' = lock
        /\ Mint(Manager, net)
        /\ vault' = VaultRent + net
        /\ treasury' = treasury + fee
        /\ wallet' = [wallet EXCEPT ![Manager] = @ - deposit - VaultRent]
        /\ UNCHANGED <<now, request, assets, lastPaid>>

\* deposit: shares are minted at the NAV before the deposit.
Deposit(i, amount) ==
    LET fee == FeeOf(amount, DepositFeeBps)
        net == amount - fee
        minted == SharesToMint(net, totalShares, Nav)
    IN  /\ VaultAlive
        /\ amount >= MinInvestorDeposit
        /\ NavReadable /\ Nav > 0
        /\ totalShares > 0
        /\ minted > 0
        /\ wallet[i] >= amount
        /\ Mint(i, minted)
        /\ vault' = vault + net
        /\ treasury' = treasury + fee
        /\ wallet' = [wallet EXCEPT ![i] = @ - amount]
        /\ UNCHANGED <<now, timelock, request, assets, lastPaid>>

\* request_withdraw: the account is init_if_needed, so a second request
\* overwrites the first, its timestamp included, and pays no second rent.
RequestWithdraw(i, shares) ==
    /\ FundExists
    /\ shares > 0
    /\ held[i] >= shares
    /\ IF Requested(i)
       THEN UNCHANGED wallet
       ELSE /\ wallet[i] >= RequestRent
            /\ wallet' = [wallet EXCEPT ![i] = @ - RequestRent]
    /\ request' = [request EXCEPT ![i] = [shares |-> shares, ts |-> now]]
    /\ UNCHANGED <<now, ledger, vault, assets, treasury, lastPaid>>

\* Mistake: the rent of the closed request goes nowhere.
CancelWithoutRefund(i) ==
    /\ Requested(i)
    /\ request' = [request EXCEPT ![i] = NoRequest]
    /\ UNCHANGED <<now, ledger, money, lastPaid>>

\* cancel_withdraw: closes the request and returns its rent.
CancelWithdraw(i) ==
    /\ Requested(i)
    /\ request' = [request EXCEPT ![i] = NoRequest]
    /\ wallet' = [wallet EXCEPT ![i] = @ + RequestRent]
    /\ UNCHANGED <<now, ledger, vault, assets, treasury, lastPaid>>

\* Mistake: no timelock.
MaturedAtOnce(i) == Requested(i)

\* The checks of execute_withdraw on the request itself.
Matured(i) == Requested(i) /\ now >= request[i].ts + timelock

\* Mistake: the request alone is trusted for the number of shares.
NoBalanceCheck(i) == Requested(i)

\* The investor still has the shares: nothing was reserved by the request.
SharesAtHand(i) == held[i] >= request[i].shares

\* Mistake: total_shares is expected to be the mint's supply.
SupplyUnburned(i) ==
    totalShares > 0 /\ totalShares >= request[i].shares /\ supply = totalShares

\* The fund counts enough shares to redeem these, and the mint has them to burn.
SharesCounted(i) ==
    totalShares > 0 /\ totalShares >= request[i].shares /\ supply >= request[i].shares

\* execute_withdraw: pays the requested shares at the NAV of now, not at the
\* NAV of the request.
ExecuteWithdraw(i) ==
    LET shares == request[i].shares
        gross == GrossPayout(shares, Nav, totalShares)
        fee == FeeOf(gross, WithdrawFeeBps)
    IN  /\ VaultAlive
        /\ Matured(i)
        /\ SharesAtHand(i) /\ SharesCounted(i)
        /\ NavReadable /\ Nav > 0
        /\ vault >= gross
        /\ RentExempt(vault - gross)
        /\ held' = [held EXCEPT ![i] = @ - shares]
        /\ supply' = supply - shares
        /\ totalShares' = totalShares - shares
        /\ vault' = vault - gross
        /\ treasury' = treasury + fee
        /\ wallet' = [wallet EXCEPT ![i] = @ + (gross - fee) + RequestRent]
        /\ request' = [request EXCEPT ![i] = NoRequest]
        /\ lastPaid' = [lastPaid EXCEPT ![i] = now]
        /\ UNCHANGED <<now, timelock, assets>>

-----------------------------------------------------------------------------
(* What happens around these instructions.                                 *)

\* Holders move shares between their token accounts (SPL token transfer).
TransferShares(i, j, shares) ==
    /\ i # j
    /\ shares > 0 /\ held[i] >= shares
    /\ held' = [held EXCEPT ![i] = @ - shares, ![j] = @ + shares]
    /\ UNCHANGED <<now, timelock, totalShares, supply, request, money, lastPaid>>

\* A holder burns shares with the token program: the mint's supply falls, the
\* fund's own total_shares does not.  (The token program takes the amount off
\* the balance and off the supply with checked subtractions.)
BurnShares(i, shares) ==
    /\ shares > 0 /\ held[i] >= shares /\ supply >= shares
    /\ held' = [held EXCEPT ![i] = @ - shares]
    /\ supply' = supply - shares
    /\ UNCHANGED <<now, timelock, totalShares, request, money, lastPaid>>

\* Trades and orders move the fund's value between the vault and its other
\* assets, at a profit or a loss.  They need a live vault.
PortfolioMoves(lamports, value) ==
    /\ VaultAlive
    /\ RentExempt(lamports)
    /\ vault' = lamports
    /\ assets' = value
    /\ UNCHANGED <<now, ledger, request, treasury, wallet, lastPaid>>

\* Prices, listings and the accounts that the next caller brings along change what
\* the assets are worth, and whether that can be computed, whether or not the vault
\* is alive.
AssetsRevalued(value) ==
    /\ FundExists
    /\ assets' = value
    /\ UNCHANGED <<now, ledger, request, vault, treasury, wallet, lastPaid>>

Tick ==
    /\ now < MaxTime
    /\ now' = now + 1
    /\ UNCHANGED <<ledger, request, money, lastPaid>>

Next ==
    \/ \E deposit \in DepositAmounts, lock \in MinTimelock .. MaxTimelock :
            InitializeFund(deposit, lock)
    \/ \E i \in Investors, amount \in DepositAmounts : Deposit(i, amount)
    \/ \E i \in Investors, shares \in 1 .. totalShares : RequestWithdraw(i, shares)
    \/ \E i \in Investors : CancelWithdraw(i)
    \/ \E i \in Investors : ExecuteWithdraw(i)
    \/ \E i, j \in Investors, shares \in 1 .. totalShares : TransferShares(i, j, shares)
    \/ \E i \in Investors, shares \in 1 .. totalShares : BurnShares(i, shares)
    \/ \E lamports \in VaultBalances, value \in AssetValues \cup {NoValue} :
            PortfolioMoves(lamports, value)
    \/ \E value \in AssetValues \cup {NoValue} : AssetsRevalued(value)
    \/ Tick

Spec == Init /\ [][Next]_vars

\* Time passes, and an investor whose request can be executed does execute it in
\* the end.
Fairness ==
    /\ WF_vars(Tick)
    /\ \A i \in Investors : WF_vars(ExecuteWithdraw(i))

FairSpec == Spec /\ Fairness

-----------------------------------------------------------------------------
(* Properties.                                                             *)

\* The fund never owes more tokens than it counts: every share token in
\* circulation is part of total_shares, the denominator of each payout.  (Burns
\* outside the program only widen the gap.)
SupplyCovered == supply <= totalShares

\* Minting and burning by the fund never lower what a share is worth: whatever
\* the fees, the rounding and the order of deposits and withdrawals, the value
\* of one remaining share (NAV / total_shares) does not fall.  deposit and
\* execute_withdraw both round against the caller.
NoDilution ==
    [][totalShares' # totalShares /\ totalShares > 0
        => Nav' * totalShares >= Nav * totalShares']_vars

\* An investor is paid out at most once per timelock: between two payouts a new
\* request must have been written and aged.
PayoutsSpaced ==
    [][\A i \in Investors : totalShares' < totalShares /\ held'[i] < held[i]
            => now >= lastPaid[i] + timelock]_vars

\* The payout of the last share takes all the NAV counts: no lamport stays behind
\* that nobody could claim any more.
LastShareTakesAll ==
    [][totalShares > 0 /\ totalShares' = 0 => Nav' = 0]_vars

\* The request of i matures before the clock of this instance stops.
MaturesInTime(i) == Requested(i) /\ request[i].ts + timelock <= MaxTime

\* The NAV can be computed, and the vault alone can pay what i's request is worth at
\* it: value held in tokens or in orders does not help, nor does a rest between
\* nothing and the vault's rent.
Liquid(i) ==
    LET gross == GrossPayout(request[i].shares, Nav, totalShares)
    IN  VaultAlive /\ NavReadable /\ Nav > 0 /\ vault >= gross /\ RentExempt(vault - gross)

\* An investor who keeps asking is paid, cancels or asks anew, unless the shares
\* are no longer at hand, the NAV cannot be computed or the vault cannot pay.
\* Nobody else's deposits, withdrawals, transfers and requests, and no burn outside
\* the program, which total_shares does not follow, can keep a request from being
\* paid: total_shares and the supply always cover the shares an investor has.
RequestsPaid ==
    \A i \in Investors :
        MaturesInTime(i) ~> (~MaturesInTime(i) \/ ~SharesAtHand(i) \/ ~Liquid(i))
=============================================================================
