---------------------------- MODULE FundAccounts ----------------------------
(***************************************************************************)
(* The accounts of one trading fund that its trading instructions share:   *)
(* the SOL vault, one token vault per mint, the token whitelists and the   *)
(* counters in fund_state.  LimitOrders and DcaOrders extend this module   *)
(* with the order accounts, TradingFund puts them together.                *)
(*                                                                         *)
(* Modelled instructions: add_token and remove_token in both scopes, and   *)
(* the net effect of a committed borrow_for_swap .. settle_swap            *)
(* transaction (module SwapTx opens that transaction up).                  *)
(*                                                                         *)
(* Prices are integers in one exponent: price[f] for the tokens, solPrice  *)
(* for SOL, so that `amount` base units of a token are worth               *)
(* amount * price \div solPrice lamports.  The exponents of               *)
(* token_value_in_lamports only scale the two.  Prices are always fresh.   *)
(***************************************************************************)
EXTENDS FundMath, FiniteSets, Sequences

CONSTANTS
    Mints,             \* token mints the admin may list (there are others)
    Feeds,             \* Pyth price accounts
    NoFeed,            \* the pyth_feed of a whitelist entry that does not exist
    Prices,            \* prices a token's feed may show
    SolPrices,         \* prices the SOL feed may show
    MaxSlippageBps,    \* config.max_slippage_bps
    VaultRent,         \* rent-exempt minimum of the fund vault
    SolVaultRent,      \* ... of an order's SOL vault (no data)
    TokenAccountRent,  \* ... of an SPL token account
    OrderRent,         \* ... of a limit order account
    \* bounds of the instance that TLC explores
    InitialSol,        \* lamports over rent in the fund vault at the start
    OrderIds,          \* 0 .. n: order ids the fund may hand out
    Amounts,           \* amounts a manager may name
    MinOuts,           \* min_out values a manager may name
    Outs,              \* outputs a swap may return
    Expiries,          \* expiry_ts values a manager may name, 0 for none
    MaxTime            \* the clock stops here

ASSUME FundAccountsAssumption ==
    /\ Mints # {} /\ NoFeed \notin Feeds
    /\ Prices \subseteq Nat \ {0}
    /\ SolPrices \subseteq Nat \ {0}
    /\ MaxSlippageBps \in 0 .. BpsDenominator
    /\ {VaultRent, SolVaultRent, TokenAccountRent, OrderRent} \subseteq Nat \ {0}
    /\ InitialSol \in Nat
    /\ OrderIds \subseteq Nat /\ IsFiniteSet(OrderIds)
    /\ Amounts \subseteq Nat /\ MinOuts \subseteq Nat
    /\ Outs \subseteq Nat /\ Expiries \subseteq Nat /\ MaxTime \in Nat

VARIABLES
    now,           \* Clock::get()?.unix_timestamp
    vault,         \* lamports of the fund vault account
    tokens,        \* tokens[m]: balance of the fund's token vault for m
    global,        \* global[m]: the feed of m's GlobalWhitelist entry
    listed,        \* listed[m]: the feed of m's FundWhitelist entry
    enabledCount,  \* fund_state.enabled_token_count
    nextOrderId,   \* fund_state.next_order_id
    price,         \* price[f]: what feed f shows
    solPrice       \* what the SOL feed shows

holdings == <<vault, tokens>>
whitelists == <<global, listed, enabledCount>>
oracle == <<price, solPrice>>
fundVars == <<now, holdings, whitelists, nextOrderId, oracle>>

\* The fund vault account is loaded as Account<FundVault>, which fails once
\* its lamports reached 0 and the runtime purged it.
VaultAlive == vault > 0

\* A transaction may not leave an account with some lamports and less than
\* its rent-exempt minimum.
RentExempt(lamports) == lamports = 0 \/ lamports >= VaultRent

Listed == {m \in Mints : listed[m] # NoFeed}

\* What `amount` of a token is worth in lamports on feed f, and what `lamports`
\* buy of it: both are rounded down.
LamportsFor(amount, f) == (amount * price[f]) \div solPrice
TokensFor(lamports, f) == (lamports * solPrice) \div price[f]

FundTypeOK ==
    /\ now \in Nat
    /\ vault \in Nat
    /\ tokens \in [Mints -> Nat]
    /\ global \in [Mints -> Feeds \cup {NoFeed}]
    /\ listed \in [Mints -> Feeds \cup {NoFeed}]
    /\ enabledCount \in Nat
    /\ nextOrderId \in Nat
    /\ price \in [Feeds -> Prices]
    /\ solPrice \in SolPrices

\* Nothing held, nothing listed, at any prices.
NothingHeld ==
    /\ now = 0
    /\ tokens = [m \in Mints |-> 0]
    /\ global = [m \in Mints |-> NoFeed]
    /\ listed = [m \in Mints |-> NoFeed]
    /\ enabledCount = 0
    /\ nextOrderId = 0
    /\ price \in [Feeds -> Prices]
    /\ solPrice \in SolPrices

\* A fund that initialize_fund has just set up.
FundInit == NothingHeld /\ vault = VaultRent + InitialSol

-----------------------------------------------------------------------------
\* add_token, global scope (admin).
AddGlobal(m, f) ==
    /\ global[m] = NoFeed
    /\ global' = [global EXCEPT ![m] = f]
    /\ UNCHANGED <<now, holdings, listed, enabledCount, nextOrderId, oracle>>

\* remove_token, global scope (admin): the funds keep their copies.
RemoveGlobal(m) ==
    /\ global[m] # NoFeed
    /\ global' = [global EXCEPT ![m] = NoFeed]
    /\ UNCHANGED <<now, holdings, listed, enabledCount, nextOrderId, oracle>>

\* add_token, fund scope (manager): copies the global entry, its feed included.
AddFund(m) ==
    /\ global[m] # NoFeed
    /\ listed[m] = NoFeed
    /\ listed' = [listed EXCEPT ![m] = global[m]]
    /\ enabledCount' = enabledCount + 1
    /\ UNCHANGED <<now, holdings, global, nextOrderId, oracle>>

\* Mistake (for the mutation runs): enabled_token_count is left as it was.
RemoveFundUncounted(m) ==
    /\ tokens[m] = 0
    /\ enabledCount > 0
    /\ listed' = [listed EXCEPT ![m] = NoFeed]
    /\ UNCHANGED <<now, holdings, global, enabledCount, nextOrderId, oracle>>

\* remove_token, fund scope (manager): looks at the fund's token vault only, not at
\* the orders, and compares the address of the whitelist entry without asking
\* whether there is one: closing an entry that does not exist succeeds, and the
\* count falls all the same, for a mint that was never listed or is no longer.
\* (It also takes a GlobalWhitelist account, of any mint and configuration.  The
\* token vault must exist; anybody can create one.)
RemoveFund(m) ==
    /\ tokens[m] = 0
    /\ enabledCount > 0
    /\ listed' = [listed EXCEPT ![m] = NoFeed]
    /\ enabledCount' = enabledCount - 1
    /\ UNCHANGED <<now, holdings, global, nextOrderId, oracle>>

\* remove_token, fund scope, of a mint that is not one of Mints, so never listed.
RemoveOther ==
    /\ enabledCount > 0
    /\ enabledCount' = enabledCount - 1
    /\ UNCHANGED <<now, holdings, global, listed, nextOrderId, oracle>>

\* A transaction that borrows `amount`, swaps it and settles: the vault gives
\* exactly `amount`, the token vault gets at least min_out > 0.
Swap(m, amount, out) ==
    /\ VaultAlive
    /\ listed[m] # NoFeed
    /\ amount > 0 /\ vault >= amount
    /\ out > 0
    /\ RentExempt(vault - amount)
    /\ vault' = vault - amount
    /\ tokens' = [tokens EXCEPT ![m] = @ + out]
    /\ UNCHANGED <<now, whitelists, nextOrderId, oracle>>

\* An oracle publishes another price.
PriceMoves(f, p) ==
    /\ price[f] # p
    /\ price' = [price EXCEPT ![f] = p]
    /\ UNCHANGED <<now, holdings, whitelists, nextOrderId, solPrice>>

SolPriceMoves(p) ==
    /\ solPrice # p
    /\ solPrice' = p
    /\ UNCHANGED <<now, holdings, whitelists, nextOrderId, price>>

Tick ==
    /\ now < MaxTime
    /\ now' = now + 1
    /\ UNCHANGED <<holdings, whitelists, nextOrderId, oracle>>

FundNext ==
    \/ \E m \in Mints, f \in Feeds : AddGlobal(m, f)
    \/ \E m \in Mints : RemoveGlobal(m)
    \/ \E m \in Mints : AddFund(m)
    \/ \E m \in Mints : RemoveFund(m)
    \/ RemoveOther
    \/ \E m \in Mints, amount \in Amounts, out \in Outs : Swap(m, amount, out)
    \/ \E f \in Feeds, p \in Prices : PriceMoves(f, p)
    \/ \E p \in SolPrices : SolPriceMoves(p)
    \/ Tick

\* enabled_token_count fixes how many whitelist entries a NAV computation must be
\* given.  Removals of entries that do not exist lower it below the number of
\* entries there are; it must never be above it, since no account list could then
\* be long enough and nobody could deposit or withdraw any more.
CountWithinListed == enabledCount <= Cardinality(Listed)
=============================================================================
