---------------------------- MODULE LimitOrders -----------------------------
(***************************************************************************)
(* Limit orders of a trading fund: create_limit_order, execute_limit_order *)
(* and cancel_limit_order.                                                 *)
(*                                                                         *)
(* An order owns three accounts.  They are kept in one record: the order   *)
(* itself, the lamports of its SOL vault (sol) and its token account       *)
(* (ata: it exists; held: its balance, of wrapped SOL for a BUY order and  *)
(* of the order's mint for a SELL order).                                  *)
(***************************************************************************)
EXTENDS FundAccounts

CONSTANTS
    LimitPrices,   \* limit prices a manager may name
    PriceUnits     \* oracle price units in one unit of a limit price

ASSUME LimitOrdersAssumption ==
    LimitPrices \subseteq Nat \ {0} /\ PriceUnits \subseteq Nat \ {0}

VARIABLES
    limit,         \* limit[i]: the accounts of limit order i
    activeLimit    \* fund_state.active_limit_count

limitVars == <<limit, activeLimit>>

NoLimit ==
    [status |-> "none", side |-> "BUY", mint |-> CHOOSE m \in Mints : TRUE,
     amountIn |-> 0, minOut |-> 0, limitPrice |-> 0, unit |-> 1, feed |-> NoFeed,
     expiry |-> 0, sol |-> 0, ata |-> FALSE, held |-> 0]

LimitTypeOK ==
    /\ limit \in [OrderIds ->
          [status : {"none", "open", "executed"}, side : {"BUY", "SELL"}, mint : Mints,
           amountIn : Nat, minOut : Nat, limitPrice : Nat, unit : Nat,
           feed : Feeds \cup {NoFeed}, expiry : Nat, sol : Nat, ata : BOOLEAN,
           held : Nat]]
    /\ activeLimit \in Nat

OpenLimits == {i \in OrderIds : limit[i].status = "open"}

LimitInit ==
    /\ limit = [i \in OrderIds |-> NoLimit]
    /\ activeLimit = 0

-----------------------------------------------------------------------------
\* The order account that create_limit_order writes, before the escrow moves in.
\* It pins the feed of the fund's whitelist entry.
NewLimit(side, m, amount, minOut, limitPrice, unit, expiry) ==
    [status |-> "open", side |-> side, mint |-> m, amountIn |-> amount,
     minOut |-> minOut, limitPrice |-> limitPrice, unit |-> unit, feed |-> listed[m],
     expiry |-> expiry, sol |-> 0, ata |-> TRUE, held |-> 0]

\* What create_limit_order does for both sides; `order` is the new account with
\* its escrow.
RegisterLimit(order) ==
    /\ VaultAlive
    /\ order.amountIn > 0 /\ order.minOut > 0 /\ order.limitPrice > 0
    /\ listed[order.mint] # NoFeed
    /\ nextOrderId \in OrderIds
    /\ nextOrderId' = nextOrderId + 1
    /\ activeLimit' = activeLimit + 1
    /\ limit' = [limit EXCEPT ![nextOrderId] = order]
    /\ UNCHANGED <<now, whitelists, oracle>>

\* create_limit_order, BUY: the manager pays the rent of the order's SOL vault
\* and token account, the fund vault gives the escrow.
CreateBuyLimit(order) ==
    /\ RegisterLimit([order EXCEPT !.sol = SolVaultRent + order.amountIn])
    /\ vault >= order.amountIn
    /\ RentExempt(vault - order.amountIn)
    /\ vault' = vault - order.amountIn
    /\ UNCHANGED tokens

\* create_limit_order, SELL: no SOL vault is created.
CreateSellLimit(order) ==
    /\ RegisterLimit([order EXCEPT !.held = order.amountIn])
    /\ tokens[order.mint] >= order.amountIn
    /\ tokens' = [tokens EXCEPT ![order.mint] = @ - order.amountIn]
    /\ UNCHANGED vault

CreateLimitOrder(side, m, amount, minOut, limitPrice, unit, expiry) ==
    LET order == NewLimit(side, m, amount, minOut, limitPrice, unit, expiry)
    IN  \/ side = "BUY" /\ CreateBuyLimit(order)
        \/ side = "SELL" /\ CreateSellLimit(order)

\* The oracle price in the order's unit, rounded down (scale_price).
ScaledPrice(order) == price[order.feed] \div order.unit

\* The checks of execute_limit_order before it moves anything: open, not
\* expired, the mint still listed with the feed the order pinned, triggered.
LimitExecutable(order) ==
    /\ VaultAlive
    /\ order.status = "open"
    /\ order.expiry # 0 => now <= order.expiry
    /\ listed[order.mint] # NoFeed
    /\ listed[order.mint] = order.feed
    /\ \/ order.side = "BUY" /\ ScaledPrice(order) <= order.limitPrice
       \/ order.side = "SELL" /\ ScaledPrice(order) >= order.limitPrice

\* Mistake (for the mutation runs): the manager's min_out is the only bound.
MinOutOnly(order, amount, out) == out >= order.minOut

\* The least a swap of `amount` may return: min_out and the oracle's expectation
\* less the tolerated slippage.
EnoughOut(order, amount, out) ==
    LET expected == IF order.side = "BUY" THEN TokensFor(amount, order.feed)
                                          ELSE LamportsFor(amount, order.feed)
    IN  out >= order.minOut /\ out >= ApplyMaxSlippage(expected, MaxSlippageBps)

\* Mistake: the token account is not closed.
ExecutedLeftOpen(order, sol) ==
    [order EXCEPT !.status = "executed", !.sol = sol, !.held = 0]

\* An executed order: the token account is closed to the fund vault, whatever
\* the SOL vault still holds stays there, and the order account stays open.
ExecutedLimit(order, sol) ==
    [order EXCEPT !.status = "executed", !.sol = sol, !.ata = FALSE, !.held = 0]

\* execute_limit_order, BUY: the escrow goes to the wrapped SOL account, all of
\* it is swapped, the output goes to the fund's token vault.
ExecuteBuyLimit(i, out) ==
    LET order == limit[i]
    IN  /\ order.side = "BUY"
        /\ LimitExecutable(order)
        /\ order.sol >= order.amountIn
        /\ order.held = 0
        /\ EnoughOut(order, order.amountIn, out)
        /\ tokens' = [tokens EXCEPT ![order.mint] = @ + out]
        /\ vault' = vault + TokenAccountRent
        /\ limit' = [limit EXCEPT ![i] = ExecutedLimit(order, order.sol - order.amountIn)]

\* execute_limit_order, SELL: the output comes as lamports to the fund vault.
ExecuteSellLimit(i, out) ==
    LET order == limit[i]
    IN  /\ order.side = "SELL"
        /\ LimitExecutable(order)
        /\ order.held = order.amountIn
        /\ EnoughOut(order, order.amountIn, out)
        /\ vault' = vault + out + TokenAccountRent
        /\ limit' = [limit EXCEPT ![i] = ExecutedLimit(order, order.sol)]
        /\ UNCHANGED tokens

\* Mistake: active_limit_count is not decremented.
ExecuteUncounted(i, out) ==
    /\ ExecuteBuyLimit(i, out) \/ ExecuteSellLimit(i, out)
    /\ UNCHANGED <<now, whitelists, nextOrderId, oracle, activeLimit>>

\* execute_limit_order (keeper).
ExecuteLimitOrder(i, out) ==
    /\ ExecuteBuyLimit(i, out) \/ ExecuteSellLimit(i, out)
    /\ activeLimit' = activeLimit - 1
    /\ UNCHANGED <<now, whitelists, nextOrderId, oracle>>

\* Mistake: the SOL vault is forgotten.
CancelBuyWithoutEscrow(i) ==
    /\ limit[i].side = "BUY"
    /\ limit[i].held = 0
    /\ vault' = vault + TokenAccountRent + OrderRent
    /\ UNCHANGED tokens

\* cancel_limit_order (manager), BUY: the SOL vault is emptied, its rent
\* included; a token account that holds anything is an error.
CancelBuyLimit(i) ==
    /\ limit[i].side = "BUY"
    /\ limit[i].held = 0
    /\ vault' = vault + limit[i].sol + TokenAccountRent + OrderRent
    /\ UNCHANGED tokens

\* cancel_limit_order (manager), SELL: the fund's token vault takes the escrow
\* back, listed or not.
CancelSellLimit(i) ==
    /\ limit[i].side = "SELL"
    /\ tokens' = [tokens EXCEPT ![limit[i].mint] = @ + limit[i].held]
    /\ vault' = vault + TokenAccountRent + OrderRent

\* Mistake: an executed order, whose account still exists, can be cancelled.
CancellableTwice(order) == order.status # "none"

LimitCancellable(order) == order.status = "open"

\* Mistake: any account at the vault's address will do, a purged one too.
CancelIntoPurgedVault(i) ==
    /\ LimitCancellable(limit[i])
    /\ CancelBuyLimit(i) \/ CancelSellLimit(i)
    /\ limit' = [limit EXCEPT ![i] = NoLimit]
    /\ activeLimit' = activeLimit - 1
    /\ UNCHANGED <<now, whitelists, nextOrderId, oracle>>

\* In both cases the token account and the order account are closed to the fund
\* vault.
CancelLimitOrder(i) ==
    /\ VaultAlive
    /\ LimitCancellable(limit[i])
    /\ CancelBuyLimit(i) \/ CancelSellLimit(i)
    /\ limit' = [limit EXCEPT ![i] = NoLimit]
    /\ activeLimit' = activeLimit - 1
    /\ UNCHANGED <<now, whitelists, nextOrderId, oracle>>

LimitNext ==
    \/ \E side \in {"BUY", "SELL"}, m \in Mints, amount \in Amounts, minOut \in MinOuts,
          limitPrice \in LimitPrices, unit \in PriceUnits, expiry \in Expiries :
            CreateLimitOrder(side, m, amount, minOut, limitPrice, unit, expiry)
    \/ \E i \in OrderIds, out \in Outs : ExecuteLimitOrder(i, out)
    \/ \E i \in OrderIds : CancelLimitOrder(i)

LimitFundVars == <<fundVars, limitVars>>

LimitFundInit == FundInit /\ LimitInit

LimitFundNext ==
    \/ FundNext /\ UNCHANGED limitVars
    \/ LimitNext

LimitSpec == LimitFundInit /\ [][LimitFundNext]_LimitFundVars

-----------------------------------------------------------------------------
(* Properties.                                                             *)

LimitFundTypeOK == FundTypeOK /\ LimitTypeOK

\* active_limit_count, which fixes how many order triplets a NAV computation
\* must be given, counts the open limit orders.
LimitCountExact == activeLimit = Cardinality(OpenLimits)

\* An open order's accounts hold the whole escrow and nothing but the escrow:
\* otherwise execute_limit_order and the BUY branch of cancel_limit_order, which
\* test the balances for equality, could refuse it for ever.  A finished order
\* owns no token account.
LimitEscrowExact ==
    \A i \in OrderIds :
        IF i \in OpenLimits
        THEN /\ limit[i].ata
             /\ IF limit[i].side = "BUY"
                THEN limit[i].sol = SolVaultRent + limit[i].amountIn /\ limit[i].held = 0
                ELSE limit[i].sol = 0 /\ limit[i].held = limit[i].amountIn
        ELSE ~limit[i].ata /\ limit[i].held = 0
=============================================================================
