---------------------------- MODULE TradingFund -----------------------------
(***************************************************************************)
(* A trading fund with both kinds of orders over the same accounts, and    *)
(* what compute_nav_lamports makes of all of them: the value that deposit  *)
(* and execute_withdraw (module Shares) divide by total_shares.            *)
(***************************************************************************)
EXTENDS LimitOrders, DcaOrders, Functions

tradingVars == <<fundVars, limitVars, dcaVars>>

TradingInit == FundInit /\ LimitInit /\ DcaInit

TradingNext ==
    \/ FundNext /\ UNCHANGED <<limitVars, dcaVars>>
    \/ LimitNext /\ UNCHANGED dcaVars
    \/ DcaNext /\ UNCHANGED limitVars

TradingSpec == TradingInit /\ [][TradingNext]_tradingVars

-----------------------------------------------------------------------------
\* The mints whose price compute_nav_lamports looks up for an order.
SellMints ==
    {limit[i].mint : i \in {j \in OpenLimits : limit[j].side = "SELL"}}
        \cup {dca[i].mint : i \in {j \in OpenDcas : dca[j].side = "SELL"}}

\* Mistake (for the mutation runs): any listed tokens will do, however few.
AnyTriplets(mints) ==
    /\ mints \subseteq Listed
    /\ activeLimit = Cardinality(OpenLimits)
    /\ activeDca = Cardinality(OpenDcas)
    /\ SellMints \subseteq mints

\* The caller may give compute_nav_lamports the whitelist triplets of these mints:
\* distinct listed ones, as many as fund_state counts, the mint of every SELL order
\* among them, and as many open orders of each kind as fund_state counts.  Which of
\* the listed mints they are is not looked at.  At a count of 0 there are no
\* triplets, and there must be no orders.
Acceptable(mints) ==
    /\ mints \subseteq Listed
    /\ Cardinality(mints) = enabledCount
    /\ activeLimit = Cardinality(OpenLimits)
    /\ activeDca = Cardinality(OpenDcas)
    /\ SellMints \subseteq mints
    /\ enabledCount = 0 => activeLimit = 0 /\ activeDca = 0

\* There is an account list that compute_nav_lamports accepts.
NavComputable == \E mints \in SUBSET Mints : Acceptable(mints)

\* Mistake (for the mutation runs): only tokens have a value.
TokensOnly(order) ==
    IF order.side = "BUY" THEN 0 ELSE LamportsFor(order.held, listed[order.mint])

\* What an open order adds to the NAV: all lamports of a BUY order's SOL vault, or
\* the value of a SELL order's tokens (but not the lamports of its SOL vault).
EscrowValue(order) ==
    IF order.side = "BUY" THEN order.sol
                          ELSE LamportsFor(order.held, listed[order.mint])

ValuesOf(mints) == [m \in mints |-> LamportsFor(tokens[m], listed[m])]
LimitValues == [i \in OpenLimits |-> EscrowValue(limit[i])]
DcaValues == [i \in OpenDcas |-> EscrowValue(dca[i])]

\* What compute_nav_lamports adds up when it is given the triplets of `mints`.
NavOf(mints) ==
    vault + SumFunction(ValuesOf(mints)) + SumFunction(LimitValues) + SumFunction(DcaValues)

\* The value of the whole fund, whatever the count says.  It exists when the tokens
\* of all SELL orders have a feed.
Nav == NavOf(Listed)
AllPriced == SellMints \subseteq Listed

-----------------------------------------------------------------------------
(* Properties.                                                             *)

\* Steps, told by what they do to an order.
LimitFilled(i) == limit[i].status = "open" /\ limit'[i].status = "executed"
DcaFilled(i) == dca[i].status = "open" /\ Len(times'[i]) > Len(times[i])
OrderCreated == nextOrderId' # nextOrderId
OrderCancelled ==
    \E i \in OrderIds :
        \/ limit[i].status = "open" /\ limit'[i].status = "none"
        \/ dca[i].status = "open" /\ dca'[i].status = "cancelled"

\* Creating or cancelling an order moves value between the fund's vaults and the
\* order's, and compute_nav_lamports sees it in both places: the fund loses no more
\* than the lamport that two separate roundings may cost.
NavKeptByOrders ==
    [][(OrderCreated \/ OrderCancelled) /\ AllPriced /\ AllPriced'
        => Nav' >= Nav - 1]_tradingVars

\* What a fill of `amount` may cost the fund: the tolerated slippage, the rent
\* left in a limit order's SOL vault, and roundings (of the expected output, of
\* the slippage, of the tokens' value before and after).
TolerableLoss(order, amount) ==
    LET f == order.feed
        value == IF order.side = "BUY" THEN amount ELSE LamportsFor(amount, f)
    IN  FeeOf(value, MaxSlippageBps) + SolVaultRent + 3 + (2 * price[f]) \div solPrice

\* An executed limit order or DCA slice never lowers the NAV by more than that,
\* whatever the manager's min_out: the oracle bound of the two instructions uses
\* the price the NAV uses, for the amount that leaves the escrow.
FillLossBounded ==
    [][\A i \in OrderIds : AllPriced /\ AllPriced' =>
        /\ LimitFilled(i) => Nav' >= Nav - TolerableLoss(limit[i], limit[i].amountIn)
        /\ DcaFilled(i) => Nav' >= Nav - TolerableLoss(dca[i], SliceOf(dca[i]))]_tradingVars

\* However limit and DCA orders are created, filled and cancelled, the counters
\* and the orders stay in step: no NAV can be computed any more only after a
\* remove_token (of a mint that is listed or not), or after an order was created in
\* a fund whose count remove_token had lowered below the number of its listings.
NavLostOnlyByRemoval ==
    [][NavComputable /\ ~NavComputable'
        => \/ enabledCount' < enabledCount
           \/ OrderCreated /\ enabledCount < Cardinality(Listed)]_tradingVars

\* README.md:80 and 278-280: enabled_token_count enforces a complete NAV, no asset
\* can be left out of the accounts a deposit or a withdrawal is computed from.
NavNamesEveryToken == \A mints \in SUBSET Mints : Acceptable(mints) => mints = Listed

\* README.md:269 and 290: a token leaves the whitelist only when its vault is empty,
\* so that a balance of the fund is always a whitelisted one.
HoldingsListed == \A m \in Mints : tokens[m] > 0 => m \in Listed

\* README.md:198: the manager can cancel an open order, which refunds its escrow
\* to the fund's vaults.  All of them need the fund vault account.
OpenOrderCancellable == OpenLimits \cup OpenDcas # {} => VaultAlive
=============================================================================
