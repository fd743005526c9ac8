---------------------------- MODULE StrategyFund ----------------------------
(***************************************************************************)
(* A strategy fund: initialize_strategy_fund, set_strategy,                *)
(* rebalance_strategy and sweep_wsol over the accounts of FundAccounts.    *)
(*                                                                         *)
(* A strategy fund has no orders and no borrow / settle (they check        *)
(* fund_type): the keeper's rebalances are its only trades.  add_token and  *)
(* remove_token do not look at fund_type, so its whitelist changes as that *)
(* of any fund, while the strategy is written once.  Deposits and payouts  *)
(* are seen through the lamports they leave in the vault.  The fund's      *)
(* wrapped SOL account is an ordinary token account: anybody may create it *)
(* and send to it.                                                         *)
(***************************************************************************)
EXTENDS FundAccounts, FiniteSetsExt

CONSTANTS
    MinManagerDeposit, DepositFeeBps,   \* of the configuration
    MaxStrategyTokens,  \* MAX_STRATEGY_TOKENS
    SellDust,           \* SELL_DUST_TOLERANCE
    CountModulus,       \* number of values of a u8
    \* what the manager may name
    Weights,            \* weight_bps
    Thresholds,         \* rebalance_threshold_bps
    Cooldowns,          \* rebalance_cooldown_secs
    Rests,              \* what a swap may leave unspent
    Gifts,              \* what somebody may send to the wrapped SOL account
    MaxDonated,         \* no more than that is sent between two sweeps
    MaxVault            \* nothing is sent while the vault holds more

ASSUME StrategyAssumption ==
    /\ MinManagerDeposit \in Nat /\ DepositFeeBps \in 0 .. BpsDenominator
    /\ MaxStrategyTokens \in Nat /\ SellDust \in Nat
    /\ CountModulus \in Nat /\ CountModulus > MaxStrategyTokens
    /\ Weights \subseteq Nat /\ Thresholds \subseteq Nat /\ Cooldowns \subseteq Nat
    /\ Rests \subseteq Nat
    /\ Gifts \subseteq Nat /\ MaxDonated \in Nat /\ MaxVault \in Nat

VARIABLES
    opened,      \* initialize_strategy_fund has run
    strategy,    \* the Strategy account; no weights before set_strategy
    ata,         \* the fund's wrapped SOL account exists
    wsol,        \* its balance, the rent of the account not included
    unsynced,    \* lamports it holds that sync_native has not made a balance yet
    lastBuy,     \* history: what the last BUY rebalance took from the vault
    lastTrade,   \* history: when set_strategy or the last rebalance happened
    donated      \* history: what others sent to the account since the last sweep

wrapped == <<ata, wsol, unsynced>>
history == <<lastBuy, lastTrade, donated>>
strategyVars == <<fundVars, opened, strategy, wrapped, history>>

NoStrategy == [weights |-> <<>>, threshold |-> 0, cooldown |-> 0, last |-> 0]

\* The mints of strategy.allocations.
Allocated == DOMAIN strategy.weights
StrategySet == Allocated # {}

StrategyTypeOK ==
    /\ FundTypeOK
    /\ opened \in BOOLEAN
    /\ Allocated \subseteq Mints
    /\ strategy.weights \in [Allocated -> 1 .. BpsDenominator]
    /\ strategy.threshold \in 0 .. BpsDenominator
    /\ strategy.cooldown \in Nat /\ strategy.last \in 0 .. now
    /\ ata \in BOOLEAN /\ wsol \in Nat /\ unsynced \in Nat
    /\ ~ata => wsol = 0 /\ unsynced = 0
    /\ lastBuy \in Nat /\ lastTrade \in Nat /\ donated \in Nat

StrategyInit ==
    /\ NothingHeld
    /\ opened = FALSE
    /\ vault = 0
    /\ strategy = NoStrategy
    /\ ata = FALSE /\ wsol = 0 /\ unsynced = 0
    /\ lastBuy = 0 /\ lastTrade = 0 /\ donated = 0

-----------------------------------------------------------------------------
\* initialize_strategy_fund: the manager's first deposit, over the rent.  (The
\* shares it mints are InitializeFund of module Shares.)
InitializeStrategyFund(deposit) ==
    LET net == deposit - FeeOf(deposit, DepositFeeBps)
    IN  /\ ~opened
        /\ deposit >= MinManagerDeposit
        /\ net > 0
        /\ opened' = TRUE
        /\ vault' = VaultRent + net
        /\ UNCHANGED <<now, tokens, whitelists, nextOrderId, oracle, strategy,
                       wrapped, history>>

\* set_strategy (manager): the account is `init`, so it is written once.  The
\* allocations are the fund's whitelist of this moment, weighted to 100%.
SetStrategy(weights, threshold, cooldown) ==
    LET mints == DOMAIN weights
    IN  /\ opened
        /\ ~StrategySet
        /\ mints # {} /\ Cardinality(mints) <= MaxStrategyTokens
        /\ threshold <= BpsDenominator
        /\ cooldown > 0
        /\ enabledCount = Cardinality(mints)
        /\ \A m \in mints : weights[m] > 0
        /\ SumFunction(weights) = BpsDenominator
        /\ mints \subseteq Listed
        /\ strategy' = [weights |-> weights, threshold |-> threshold,
                        cooldown |-> cooldown, last |-> now]
        /\ lastTrade' = now
        /\ UNCHANGED <<fundVars, opened, wrapped, lastBuy, donated>>

-----------------------------------------------------------------------------
(* rebalance_strategy (keeper).                                            *)

ValueOf(m) == LamportsFor(tokens[m], listed[m])

\* The NAV of a set of tokens with the vault.  The wrapped SOL is not in it.
NavOver(mints) == vault + SumFunction([m \in mints |-> ValueOf(m)])

TargetOf(m) == (NavOver(Allocated) * strategy.weights[m]) \div BpsDenominator
Deviation(m) == ValueOf(m) - TargetOf(m)

\* The deviation is larger than the threshold's share of the NAV.
OffTarget(m) ==
    LET threshold == (NavOver(Allocated) * strategy.threshold) \div BpsDenominator
    IN  Deviation(m) > threshold \/ -Deviation(m) > threshold

\* Mistake: the number of tokens is not compared.
AnyWhitelist == Allocated \subseteq Listed

\* Each allocation is still listed, and the fund has as many tokens as the
\* strategy (the u16 count is cut to the u8 of the strategy).
StrategyFits ==
    /\ Allocated \subseteq Listed
    /\ enabledCount % CountModulus = Cardinality(Allocated)

\* Mistake: what an earlier rebalance left is not looked at.
AnyWsol == TRUE

WsolCleared == wsol = 0

CooldownOver == now >= strategy.last + strategy.cooldown

\* The checks before the swap.
RebalanceDue(m) ==
    /\ VaultAlive
    /\ StrategySet
    /\ StrategyFits
    /\ WsolCleared
    /\ CooldownOver
    /\ m \in Allocated
    /\ OffTarget(m)

\* Mistake: min_out alone bounds the price of a purchase.
BoughtAtAnyPrice(spend, m) == 1

\* The least tokens the swap of `spend` lamports may deliver.
LeastBought(spend, m) == ApplyMaxSlippage(TokensFor(spend, listed[m]), MaxSlippageBps)

\* Deviation below target: exactly that many lamports go to the wrapped SOL
\* account, which is created when there is none (at the keeper's expense), and
\* sync_native turns all it holds into its balance.  Only what the swap delivers is
\* checked: it may leave `rest` of that unspent.
Buy(m, out, rest) ==
    LET spend == -Deviation(m)
    IN  /\ spend > 0
        /\ vault >= spend /\ RentExempt(vault - spend)
        /\ out >= LeastBought(spend, m)
        /\ rest <= spend + unsynced
        /\ vault' = vault - spend
        /\ tokens' = [tokens EXCEPT ![m] = @ + out]
        /\ ata' = TRUE /\ wsol' = wsol + rest /\ unsynced' = 0
        /\ lastBuy' = spend /\ UNCHANGED donated

\* Mistake: the keeper decides how much to sell.
SellAny(m) == tokens[m]

\* Tokens worth the deviation, and two base units of dust.
SellCap(m) == LET wanted == Min({TokensFor(Deviation(m), listed[m]), tokens[m]})
              IN  IF wanted > 0 THEN wanted + SellDust ELSE 0

\* Deviation above target: the swap must sell something, within the cap, and
\* what it sells is what the proceeds are measured against.
Sell(m, sold, out) ==
    /\ Deviation(m) > 0
    /\ sold > 0 /\ sold <= SellCap(m) /\ sold <= tokens[m]
    /\ out >= ApplyMaxSlippage(LamportsFor(sold, listed[m]), MaxSlippageBps)
    /\ tokens' = [tokens EXCEPT ![m] = @ - sold]
    /\ vault' = vault + out
    /\ UNCHANGED <<wrapped, lastBuy, donated>>

\* Mistake: a sale does not start the cooldown.
StampBuysOnly(m) == IF Deviation(m) < 0 THEN now ELSE strategy.last

\* What last_rebalance_ts becomes by a rebalance of m.
Stamp(m) == now

\* The keeper's min_out is positive, and so is the output.
RebalanceStrategy(m, out) ==
    /\ out > 0
    /\ RebalanceDue(m)
    /\ \/ \E rest \in Rests : Buy(m, out, rest)
       \/ \E sold \in 1 .. SellCap(m) : Sell(m, sold, out)
    /\ strategy' = [strategy EXCEPT !.last = Stamp(m)]
    /\ lastTrade' = now
    /\ UNCHANGED <<now, whitelists, nextOrderId, oracle, opened>>

\* Mistake: the account is closed before its balance was synced.
SweepRentOnly ==
    /\ VaultAlive
    /\ ata
    /\ vault' = vault + TokenAccountRent
    /\ ata' = FALSE /\ UNCHANGED <<wsol, unsynced>>
    /\ donated' = 0
    /\ UNCHANGED <<now, tokens, whitelists, nextOrderId, oracle, opened, strategy,
                   lastBuy, lastTrade>>

\* sweep_wsol (keeper): closes the wrapped SOL account to the fund vault, its
\* rent included, after a sync_native.  Without that account nothing happens.
SweepWsol ==
    /\ VaultAlive
    /\ ata
    /\ vault' = vault + wsol + unsynced + TokenAccountRent
    /\ ata' = FALSE /\ wsol' = 0 /\ unsynced' = 0
    /\ donated' = 0
    /\ UNCHANGED <<now, tokens, whitelists, nextOrderId, oracle, opened, strategy,
                   lastBuy, lastTrade>>

\* Somebody creates the fund's wrapped SOL account if there is none (nobody needs
\* the fund's leave for that) and sends lamports to it, with or without a
\* sync_native: 09_strategy_fund.ts:554-570 and 679-695.
SendToWsolVault(lamports, synced) ==
    /\ donated + lamports <= MaxDonated /\ vault <= MaxVault
    /\ ata' = TRUE
    /\ IF synced THEN wsol' = wsol + unsynced + lamports /\ unsynced' = 0
                 ELSE unsynced' = unsynced + lamports /\ UNCHANGED wsol
    /\ donated' = donated + lamports
    /\ UNCHANGED <<fundVars, opened, strategy, lastBuy, lastTrade>>

\* Deposits and payouts (module Shares) leave other lamports in the vault.
LiquidityMoves(lamports) ==
    /\ VaultAlive
    /\ lamports # vault /\ RentExempt(lamports)
    /\ vault' = lamports
    /\ UNCHANGED <<now, tokens, whitelists, nextOrderId, oracle, opened, strategy,
                   wrapped, history>>

\* What happens to any fund, strategy or not.
SharedWithAllFunds ==
    /\ \/ \E m \in Mints, f \in Feeds : AddGlobal(m, f)
       \/ \E m \in Mints : RemoveGlobal(m)
       \/ \E m \in Mints : opened /\ AddFund(m)
       \/ \E m \in Mints : RemoveFund(m)
       \/ RemoveOther
       \/ \E f \in Feeds, p \in Prices : PriceMoves(f, p)
       \/ \E p \in SolPrices : SolPriceMoves(p)
       \/ Tick
    /\ UNCHANGED <<opened, strategy, wrapped, history>>

StrategyNext ==
    \/ SharedWithAllFunds
    \/ \E deposit \in Amounts : InitializeStrategyFund(deposit)
    \/ \E mints \in SUBSET Mints : \E weights \in [mints -> Weights],
          threshold \in Thresholds, cooldown \in Cooldowns :
            SetStrategy(weights, threshold, cooldown)
    \/ \E m \in Mints, out \in Outs : RebalanceStrategy(m, out)
    \/ SweepWsol
    \/ \E lamports \in Gifts, synced \in BOOLEAN : SendToWsolVault(lamports, synced)
    \/ \E lamports \in Amounts : LiquidityMoves(lamports)

StrategySpec == StrategyInit /\ [][StrategyNext]_strategyVars

-----------------------------------------------------------------------------
(* Properties.                                                             *)

\* Only a rebalance changes a token balance.
Rebalanced == tokens' # tokens

\* A rebalance weighs its target against the NAV of the allocated tokens only.
\* Whatever was listed and delisted since set_strategy, these are all tokens the
\* fund has listed - unless the fund lists so many that the count no longer fits a
\* u8, or remove_token has lowered the count below the number of listings, so that
\* it fits a strategy that leaves some of them out.
RebalanceSeesWholeFund ==
    [][Rebalanced => \/ Allocated = Listed
                     \/ enabledCount >= CountModulus
                     \/ enabledCount < Cardinality(Listed)]_strategyVars

\* What a rebalance may cost: the tolerated slippage of the amount it trades, and
\* roundings of the expected output, of the slippage and of the values.
TradeLoss(m) ==
    LET sold == tokens[m] - tokens'[m]
        amount == IF sold > 0 THEN LamportsFor(sold, listed[m]) ELSE vault - vault'
    IN  FeeOf(amount, MaxSlippageBps) + 3 + (2 * price[listed[m]]) \div solPrice

\* No rebalance lowers the NAV by more than that, even one whose swap leaves all
\* its wrapped SOL unspent: the output is measured against all that was set
\* aside, not against what the swap used.
RebalanceLossBounded ==
    [][\A m \in Listed : tokens'[m] # tokens[m]
        => NavOver(Listed)' >= NavOver(Listed) - TradeLoss(m)]_strategyVars

\* A rebalance does not carry its token past the target to the other side by
\* more than the dust of a sale and roundings: a sale leaves at least the target,
\* a purchase at the oracle's price or worse does not exceed it.
NoOvershoot ==
    [][\A m \in Allocated :
        /\ tokens'[m] < tokens[m]
            => ValueOf(m)' >= TargetOf(m) - LamportsFor(SellDust, listed[m]) - 2
        /\ tokens'[m] > tokens[m]
              /\ tokens'[m] - tokens[m] <= TokensFor(vault - vault', listed[m])
            => ValueOf(m)' <= TargetOf(m) + 1]_strategyVars

\* Rebalances of any of the tokens, and set_strategy, are a cooldown apart, though
\* each rebalance moves one token only.
RebalancesSpaced ==
    [][Rebalanced => now >= lastTrade + strategy.cooldown]_strategyVars

\* The lamports that are in the fund but outside its NAV are never more than one
\* purchase set aside and what others have sent since the last sweep: leftovers of
\* several rebalances do not pile up, since none starts before the keeper has swept
\* the last one's.
WsolFromOneBuy == wsol + unsynced <= lastBuy + donated
=============================================================================
