---------------------------- MODULE OrderProofs -----------------------------
(***************************************************************************)
(* Proofs about the accounts of a trading fund and its orders              *)
(* (FundAccounts, LimitOrders, DcaOrders).                                 *)
(*                                                                         *)
(* What each kind of instruction keeps is stated for the instruction       *)
(* alone, whatever the rest of the fund does, so that TradingProofs can    *)
(* use it for the fund in which both kinds of orders compete.              *)
(***************************************************************************)
EXTENDS LimitOrders, DcaOrders, FundMathProofs

-----------------------------------------------------------------------------
(* The accounts of the fund.                                               *)

FundInv ==
    /\ FundTypeOK
    /\ IsFiniteSet(Listed)
    /\ CountWithinListed

\* A fund that holds nothing satisfies the invariant.
LEMMA FundInvInit == ASSUME NothingHeld, vault \in Nat PROVE FundInv
<1>1. Listed = {}
  BY DEF NothingHeld, Listed
<1>2. FundTypeOK
  BY FundAccountsAssumption DEF NothingHeld, FundTypeOK
<1> QED
  BY <1>1, <1>2, FS_EmptySet DEF FundInv, CountWithinListed, NothingHeld

\* initialize_fund leaves the vault with its rent and the first lamports.
LEMMA FundInitHolds == FundInit => FundInv
<1> SUFFICES ASSUME FundInit PROVE FundInv
  OBVIOUS
<1>1. vault \in Nat /\ NothingHeld
  BY FundAccountsAssumption DEF FundInit
<1> QED
  BY <1>1, FundInvInit

\* Instructions that only move lamports and tokens or hand out an order id.
LEMMA MovesKeepFund ==
    ASSUME FundInv, UNCHANGED <<now, whitelists, oracle>>,
           vault' \in Nat, tokens' \in [Mints -> Nat], nextOrderId' \in Nat
    PROVE  FundInv'
<1>1. /\ UNCHANGED <<global, listed, enabledCount, price, solPrice, now>>
      /\ Listed' = Listed
  BY DEF whitelists, oracle, Listed
<1> QED
  BY <1>1 DEF FundInv, FundTypeOK, CountWithinListed

\* add_token, fund scope.
LEMMA AddFundKeepsFund ==
    ASSUME FundInv, NEW m \in Mints, AddFund(m)
    PROVE  FundInv'
<1> USE DEF FundInv, FundTypeOK
<1>1. listed[m] = NoFeed /\ global[m] # NoFeed /\ global[m] \in Feeds
  BY DEF AddFund
<1>2. listed' = [listed EXCEPT ![m] = global[m]] /\ enabledCount' = enabledCount + 1
  BY DEF AddFund
<1>3. Listed' = Listed \cup {m} /\ m \notin Listed
  BY <1>1, <1>2 DEF Listed
<1>4. /\ IsFiniteSet(Listed') /\ Cardinality(Listed') = Cardinality(Listed) + 1
      /\ Cardinality(Listed) \in Nat
  BY <1>3, FS_AddElement, FS_CardinalityType
<1>5. FundTypeOK'
  BY <1>1, <1>2 DEF AddFund, holdings, oracle
<1> QED
  BY <1>2, <1>4, <1>5 DEF CountWithinListed

\* remove_token, fund scope, whether the mint is listed or not.
LEMMA RemoveFundKeepsFund ==
    ASSUME FundInv, NEW m \in Mints, RemoveFund(m)
    PROVE  FundInv'
<1> USE DEF FundInv, FundTypeOK
<1>1. /\ enabledCount > 0 /\ enabledCount' = enabledCount - 1
      /\ listed' = [listed EXCEPT ![m] = NoFeed]
  BY DEF RemoveFund
<1>2. Listed' = Listed \ {m}
  BY <1>1 DEF Listed
<1>3. /\ IsFiniteSet(Listed') /\ Cardinality(Listed') \in Nat /\ Cardinality(Listed) \in Nat
      /\ Cardinality(Listed') >= Cardinality(Listed) - 1
  <2>1. CASE m \in Listed
    <3>1. /\ IsFiniteSet(Listed \ {m})
          /\ Cardinality(Listed \ {m}) = Cardinality(Listed) - 1
      BY <2>1, FS_RemoveElement
    <3>2. Cardinality(Listed) \in Nat /\ Cardinality(Listed \ {m}) \in Nat
      BY <3>1, FS_CardinalityType
    <3> QED
      BY <1>2, <3>1, <3>2
  <2>2. CASE m \notin Listed
    <3>1. Listed' = Listed
      BY <1>2, <2>2
    <3> QED
      BY <3>1, FS_CardinalityType
  <2> QED
    BY <2>1, <2>2
<1>4. enabledCount' \in Nat /\ enabledCount' <= Cardinality(Listed')
  BY <1>1, <1>3 DEF CountWithinListed
<1>5. FundTypeOK'
  BY <1>1, <1>4 DEF RemoveFund, holdings, oracle
<1> QED
  BY <1>3, <1>4, <1>5 DEF CountWithinListed

\* The same of a mint that was never listed.
LEMMA RemoveOtherKeepsFund == ASSUME FundInv, RemoveOther PROVE FundInv'
<1> USE DEF FundInv, FundTypeOK
<1>1. enabledCount > 0 /\ enabledCount' = enabledCount - 1 /\ listed' = listed
  BY DEF RemoveOther
<1>2. Listed' = Listed /\ Cardinality(Listed) \in Nat
  BY <1>1, FS_CardinalityType DEF Listed
<1>3. enabledCount' \in Nat /\ enabledCount' <= Cardinality(Listed')
  BY <1>1, <1>2 DEF CountWithinListed
<1>4. FundTypeOK'
  BY <1>1, <1>3 DEF RemoveOther, holdings, oracle
<1> QED
  BY <1>2, <1>3, <1>4 DEF CountWithinListed

\* Every instruction about whitelists and swaps, every price and the clock.
LEMMA FundNextKeepsFund == ASSUME FundInv, FundNext PROVE FundInv'
<1> USE DEF FundInv, FundTypeOK
<1>1. ASSUME NEW m \in Mints, NEW f \in Feeds, AddGlobal(m, f) PROVE FundInv'
  BY <1>1 DEF AddGlobal, holdings, oracle, Listed, CountWithinListed
<1>2. ASSUME NEW m \in Mints, RemoveGlobal(m) PROVE FundInv'
  BY <1>2 DEF RemoveGlobal, holdings, oracle, Listed, CountWithinListed
<1>3. ASSUME NEW m \in Mints, NEW amount \in Amounts, NEW out \in Outs, Swap(m, amount, out)
      PROVE  FundInv'
  <2>1. amount \in Nat /\ out \in Nat /\ vault >= amount
    BY <1>3, FundAccountsAssumption DEF Swap
  <2>2. vault' \in Nat /\ tokens' \in [Mints -> Nat] /\ nextOrderId' \in Nat
    BY <1>3, <2>1 DEF Swap
  <2> QED
    BY <1>3, <2>2, MovesKeepFund DEF Swap
<1>4. ASSUME NEW f \in Feeds, NEW p \in Prices, PriceMoves(f, p) PROVE FundInv'
  BY <1>4 DEF PriceMoves, holdings, whitelists, Listed, CountWithinListed
<1>5. ASSUME NEW p \in SolPrices, SolPriceMoves(p) PROVE FundInv'
  BY <1>5 DEF SolPriceMoves, holdings, whitelists, Listed, CountWithinListed
<1>6. CASE Tick
  BY <1>6 DEF Tick, holdings, whitelists, oracle, Listed, CountWithinListed
<1> QED
  BY <1>1, <1>2, <1>3, <1>4, <1>5, <1>6, AddFundKeepsFund, RemoveFundKeepsFund, RemoveOtherKeepsFund,
     Zenon DEF FundNext

\* None of them hands out an order id.
LEMMA FundNextKeepsIds == ASSUME FundNext PROVE UNCHANGED nextOrderId
  BY DEF FundNext, AddGlobal, RemoveGlobal, AddFund, RemoveFund, RemoveOther, Swap, PriceMoves,
         SolPriceMoves, Tick

-----------------------------------------------------------------------------
(* What amounts of tokens are worth.                                       *)

\* Prices are positive where the NAV looks them up.
LEMMA PricesPositive ==
    ASSUME FundInv, NEW m \in Listed
    PROVE  /\ m \in Mints /\ listed[m] \in Feeds
           /\ price[listed[m]] \in Nat \ {0} /\ solPrice \in Nat \ {0}
<1>1. listed[m] \in Feeds /\ m \in Mints
  BY DEF FundInv, FundTypeOK, Listed
<1>2. price[listed[m]] \in Prices /\ solPrice \in SolPrices
  BY <1>1 DEF FundInv, FundTypeOK
<1> QED
  BY <1>1, <1>2, FundAccountsAssumption

\* An amount of a listed token is worth a whole number of lamports.
LEMMA ValueNat ==
    ASSUME FundInv, NEW m \in Listed, NEW amount \in Nat
    PROVE  LamportsFor(amount, listed[m]) \in Nat
<1>1. price[listed[m]] \in Nat /\ solPrice \in Nat \ {0}
  BY PricesPositive
<1> DEFINE p == price[listed[m]]
<1> HIDE DEF p
<1>2. amount * p \in Nat
  BY <1>1 DEF p
<1>3. (amount * p) \div solPrice \in Nat
  BY <1>1, <1>2, DivisionRoundsDown
<1> QED
  BY <1>3 DEF LamportsFor, p

\* Two amounts of a token are worth what they are worth together, or a lamport less.
LEMMA ValueSplits ==
    ASSUME FundInv, NEW m \in Listed, NEW a \in Nat, NEW b \in Nat
    PROVE  /\ LamportsFor(a, listed[m]) \in Nat /\ LamportsFor(b, listed[m]) \in Nat
           /\ LamportsFor(a + b, listed[m]) \in Nat
           /\ LamportsFor(a, listed[m]) + LamportsFor(b, listed[m]) <= LamportsFor(a + b, listed[m])
           /\ LamportsFor(a + b, listed[m]) <= LamportsFor(a, listed[m]) + LamportsFor(b, listed[m]) + 1
<1> DEFINE p == price[listed[m]]
           s == solPrice
<1>1. p \in Nat /\ s \in Nat \ {0}
  BY PricesPositive
<1> HIDE DEF p, s
<1>2. a * p \in Nat /\ b * p \in Nat /\ (a + b) * p = a * p + b * p
  BY <1>1
<1>3. /\ ((a * p) \div s) + ((b * p) \div s) <= (a * p + b * p) \div s
      /\ (a * p + b * p) \div s <= ((a * p) \div s) + ((b * p) \div s) + 1
  BY <1>1, <1>2, DivisionSplits
<1>4. (a * p) \div s \in Nat /\ (b * p) \div s \in Nat /\ (a * p + b * p) \div s \in Nat
  BY <1>1, <1>2, DivisionRoundsDown
<1> QED
  BY <1>2, <1>3, <1>4 DEF LamportsFor, p, s

\* Tokens bought at no worse than the oracle's price less the slippage are worth what was
\* paid, less the slippage and the roundings.
LEMMA BuyFillWorth ==
    ASSUME FundInv, NEW m \in Listed, NEW a \in Nat, NEW out \in Nat,
           out >= ApplyMaxSlippage(TokensFor(a, listed[m]), MaxSlippageBps)
    PROVE  /\ LamportsFor(out, listed[m]) \in Nat
           /\ FeeOf(a, MaxSlippageBps) \in Nat
           /\ (2 * price[listed[m]]) \div solPrice \in Nat
           /\ LamportsFor(out, listed[m]) + FeeOf(a, MaxSlippageBps) + 3
                  + (2 * price[listed[m]]) \div solPrice >= a
<1> DEFINE p == price[listed[m]]
<1>1. p \in Nat \ {0} /\ solPrice \in Nat \ {0} /\ MaxSlippageBps \in 0 .. BpsDenominator
  BY PricesPositive, FundAccountsAssumption
<1>2. out >= ApplyMaxSlippage((a * solPrice) \div p, MaxSlippageBps)
  BY DEF TokensFor
<1>3. LamportsFor(out, listed[m]) = (out * p) \div solPrice
  BY DEF LamportsFor
<1> HIDE DEF p
<1>4. 2 * p \in Nat /\ out * p \in Nat
  BY <1>1
<1>5. (out * p) \div solPrice + FeeOf(a, MaxSlippageBps) + 3 + (2 * p) \div solPrice >= a
  BY <1>1, <1>2, BoughtWorth
<1>6. (2 * p) \div solPrice \in Nat /\ (out * p) \div solPrice \in Nat
      /\ FeeOf(a, MaxSlippageBps) \in Nat
  BY <1>1, <1>4, DivisionRoundsDown, FeeInAmount
<1> QED
  BY <1>3, <1>5, <1>6 DEF p

\* Lamports for tokens sold under the same bound.
LEMMA SellFillWorth ==
    ASSUME FundInv, NEW m \in Listed, NEW a \in Nat, NEW out \in Nat,
           out >= ApplyMaxSlippage(LamportsFor(a, listed[m]), MaxSlippageBps)
    PROVE  /\ LamportsFor(a, listed[m]) \in Nat
           /\ FeeOf(LamportsFor(a, listed[m]), MaxSlippageBps) \in Nat
           /\ (2 * price[listed[m]]) \div solPrice \in Nat
           /\ out + FeeOf(LamportsFor(a, listed[m]), MaxSlippageBps) + 1
                  >= LamportsFor(a, listed[m])
<1> DEFINE v == LamportsFor(a, listed[m])
           p == price[listed[m]]
<1>1. v \in Nat /\ MaxSlippageBps \in 0 .. BpsDenominator
  BY ValueNat, FundAccountsAssumption
<1>2. p \in Nat /\ solPrice \in Nat \ {0}
  BY PricesPositive
<1> HIDE DEF v, p
<1>3. 2 * p \in Nat
  BY <1>2
<1>4. (2 * p) \div solPrice \in Nat
  BY <1>2, <1>3, DivisionRoundsDown
<1>5. FeeOf(v, MaxSlippageBps) \in Nat
  BY <1>1, FeeInAmount
<1>6. ApplyMaxSlippage(v, MaxSlippageBps) \in Nat
      /\ ApplyMaxSlippage(v, MaxSlippageBps) + FeeOf(v, MaxSlippageBps) + 1 >= v
  BY <1>1, SlippageIsFee
<1>7. out >= ApplyMaxSlippage(v, MaxSlippageBps)
  BY DEF v
<1>8. out + FeeOf(v, MaxSlippageBps) + 1 >= v
  BY <1>1, <1>5, <1>6, <1>7
<1> QED
  BY <1>1, <1>4, <1>5, <1>8 DEF v, p

\* More tokens are worth no less.
LEMMA ValueGrows ==
    ASSUME FundInv, NEW m \in Listed, NEW a \in Nat, NEW b \in Nat, a <= b
    PROVE  LamportsFor(a, listed[m]) <= LamportsFor(b, listed[m])
<1> DEFINE rest == b - a
<1>1. rest \in Nat /\ b = a + rest
  OBVIOUS
<1> HIDE DEF rest
<1>2. /\ LamportsFor(a, listed[m]) \in Nat /\ LamportsFor(rest, listed[m]) \in Nat
      /\ LamportsFor(a + rest, listed[m]) \in Nat
      /\ LamportsFor(a, listed[m]) + LamportsFor(rest, listed[m]) <= LamportsFor(a + rest, listed[m])
  BY <1>1, ValueSplits
<1> QED
  BY <1>1, <1>2

\* Tokens that some lamports buy at the oracle's price are worth no more than these.
LEMMA BoughtWorthAtMost ==
    ASSUME FundInv, NEW m \in Listed, NEW a \in Nat, NEW x \in Nat, x <= TokensFor(a, listed[m])
    PROVE  LamportsFor(x, listed[m]) <= a
<1> DEFINE p == price[listed[m]]
           s == solPrice
           q == (x * p) \div s
           e == (a * s) \div p
<1>1. p \in Nat \ {0} /\ s \in Nat \ {0} /\ x <= e
  BY PricesPositive DEF TokensFor
<1> HIDE DEF p, s
<1>2. x * p \in Nat /\ a * s \in Nat
  BY <1>1
<1>3. q \in Nat /\ q * s <= x * p /\ e \in Nat /\ e * p <= a * s
  BY <1>1, <1>2, DivisionRoundsDown
<1> HIDE DEF q, e
<1>4. x * p <= e * p
  BY <1>1, <1>3
<1>5. q * s < (a + 1) * s
  BY <1>1, <1>2, <1>3, <1>4
<1>6. q < a + 1
  BY <1>1, <1>3, <1>5, FactorCancels
<1> QED
  BY <1>3, <1>6 DEF q, p, s, LamportsFor

-----------------------------------------------------------------------------
(* Limit orders.                                                           *)

\* Ids that were not handed out yet belong to no order.
LimitIdsFresh == \A i \in OrderIds : i >= nextOrderId => limit[i].status = "none"

LimitInv ==
    /\ LimitTypeOK
    /\ LimitCountExact
    /\ LimitEscrowExact
    /\ LimitIdsFresh

\* The set of open orders is finite, as the set of ids is.
LEMMA OpenLimitsFinite == IsFiniteSet(OpenLimits) /\ Cardinality(OpenLimits) \in Nat
  BY FundAccountsAssumption, FS_Subset, FS_CardinalityType DEF OpenLimits

\* No order, no escrow.
LEMMA LimitInitHolds == LimitInit => LimitInv
<1> SUFFICES ASSUME LimitInit PROVE LimitInv
  OBVIOUS
<1>1. OpenLimits = {}
  BY DEF LimitInit, OpenLimits, NoLimit
<1>2. (CHOOSE m \in Mints : TRUE) \in Mints
  BY FundAccountsAssumption
<1>3. LimitTypeOK
  BY <1>2 DEF LimitInit, LimitTypeOK, NoLimit
<1>4. LimitEscrowExact /\ LimitIdsFresh
  BY <1>1 DEF LimitInit, LimitEscrowExact, LimitIdsFresh, NoLimit
<1> QED
  BY <1>1, <1>3, <1>4, FS_EmptySet DEF LimitInv, LimitCountExact, LimitInit

\* Instructions about anything else, which may hand out order ids.
LEMMA OthersKeepLimits ==
    ASSUME LimitInv, UNCHANGED limitVars, nextOrderId \in Nat, nextOrderId' \in Nat,
           nextOrderId' >= nextOrderId
    PROVE  LimitInv'
<1>1. limit' = limit /\ activeLimit' = activeLimit
  BY DEF limitVars
<1>2. LimitIdsFresh'
  BY <1>1, FundAccountsAssumption DEF LimitInv, LimitIdsFresh
<1> QED
  BY <1>1, <1>2 DEF LimitInv, LimitTypeOK, LimitCountExact, LimitEscrowExact, OpenLimits

\* The records that limit orders are kept in.
LimitOrder ==
    [status : {"none", "open", "executed"}, side : {"BUY", "SELL"}, mint : Mints,
     amountIn : Nat, minOut : Nat, limitPrice : Nat, unit : Nat,
     feed : Feeds \cup {NoFeed}, expiry : Nat, sol : Nat, ata : BOOLEAN, held : Nat]

\* A new open order with its whole escrow, under the next id.
LEMMA RegisterKeepsLimits ==
    ASSUME FundInv, LimitInv, NEW order \in LimitOrder, RegisterLimit(order),
           order.status = "open", order.ata,
           IF order.side = "BUY"
           THEN order.sol = SolVaultRent + order.amountIn /\ order.held = 0
           ELSE order.sol = 0 /\ order.held = order.amountIn
    PROVE  LimitInv' /\ nextOrderId' \in Nat
<1> DEFINE n == nextOrderId
<1>1. n \in OrderIds /\ n \in Nat /\ n' = n + 1
  BY DEF RegisterLimit, FundInv, FundTypeOK
<1>2. limit' = [limit EXCEPT ![n] = order] /\ activeLimit' = activeLimit + 1
  BY DEF RegisterLimit
<1>3. limit \in [OrderIds -> LimitOrder] /\ activeLimit \in Nat
  BY DEF LimitInv, LimitTypeOK, LimitOrder
<1>4. limit' \in [OrderIds -> LimitOrder] /\ activeLimit' \in Nat
  BY <1>1, <1>2, <1>3
<1>5. limit[n].status = "none"
  BY <1>1 DEF LimitInv, LimitIdsFresh
<1>6. limit'[n] = order /\ \A i \in OrderIds \ {n} : limit'[i] = limit[i]
  BY <1>1, <1>2, <1>3
<1>7. OpenLimits' = OpenLimits \cup {n} /\ n \notin OpenLimits
  BY <1>1, <1>5, <1>6 DEF OpenLimits
<1>8. LimitCountExact'
  <2>1. Cardinality(OpenLimits') = Cardinality(OpenLimits) + 1
    BY <1>7, OpenLimitsFinite, FS_AddElement
  <2> QED
    BY <2>1, <1>2 DEF LimitInv, LimitCountExact
<1>9. LimitEscrowExact'
  BY <1>1, <1>6, <1>7 DEF LimitInv, LimitEscrowExact
<1>10. LimitIdsFresh'
  <2> SUFFICES ASSUME NEW i \in OrderIds, i >= n' PROVE limit'[i].status = "none"
    BY DEF LimitIdsFresh
  <2>1. i \in Nat /\ i # n /\ i >= n
    BY <1>1, FundAccountsAssumption
  <2> QED
    BY <2>1, <1>6 DEF LimitInv, LimitIdsFresh
<1> QED
  BY <1>1, <1>4, <1>8, <1>9, <1>10 DEF LimitInv, LimitTypeOK, LimitOrder

\* An order that is open no more and whose token account is closed.
LEMMA ClosingKeepsLimits ==
    ASSUME FundInv, LimitInv, NEW i \in OrderIds, NEW order \in LimitOrder,
           limit[i].status = "open", order.status # "open", ~order.ata, order.held = 0,
           limit' = [limit EXCEPT ![i] = order], activeLimit' = activeLimit - 1,
           UNCHANGED nextOrderId
    PROVE  LimitInv'
<1>1. limit \in [OrderIds -> LimitOrder] /\ activeLimit \in Nat
  BY DEF LimitInv, LimitTypeOK, LimitOrder
<1>2. limit'[i] = order /\ \A j \in OrderIds \ {i} : limit'[j] = limit[j]
  BY <1>1
<1>3. OpenLimits' = OpenLimits \ {i} /\ i \in OpenLimits
  BY <1>2 DEF OpenLimits
<1>4. /\ IsFiniteSet(OpenLimits') /\ Cardinality(OpenLimits') = Cardinality(OpenLimits) - 1
      /\ Cardinality(OpenLimits') \in Nat /\ Cardinality(OpenLimits) \in Nat
  BY <1>3, OpenLimitsFinite, FS_RemoveElement, FS_CardinalityType
<1>5. activeLimit' = Cardinality(OpenLimits')
  BY <1>4 DEF LimitInv, LimitCountExact
<1>6. limit' \in [OrderIds -> LimitOrder] /\ activeLimit' \in Nat
  BY <1>1, <1>4, <1>5
<1>7. LimitEscrowExact'
  BY <1>2, <1>3 DEF LimitInv, LimitEscrowExact
<1>8. LimitIdsFresh'
  BY <1>2 DEF LimitInv, LimitIdsFresh
<1> QED
  BY <1>5, <1>6, <1>7, <1>8 DEF LimitInv, LimitTypeOK, LimitCountExact, LimitOrder

\* create_limit_order.
LEMMA CreateKeepsLimits ==
    ASSUME FundInv, LimitInv,
           NEW side \in {"BUY", "SELL"}, NEW m \in Mints, NEW amount \in Amounts,
           NEW minOut \in MinOuts, NEW limitPrice \in LimitPrices, NEW unit \in PriceUnits,
           NEW expiry \in Expiries,
           CreateLimitOrder(side, m, amount, minOut, limitPrice, unit, expiry)
    PROVE  LimitInv' /\ FundInv' /\ nextOrderId' = nextOrderId + 1
<1> DEFINE order == NewLimit(side, m, amount, minOut, limitPrice, unit, expiry)
           buy == [order EXCEPT !.sol = SolVaultRent + order.amountIn]
           sell == [order EXCEPT !.held = order.amountIn]
<1>1. /\ amount \in Nat /\ minOut \in Nat /\ expiry \in Nat /\ limitPrice \in Nat /\ unit \in Nat
      /\ SolVaultRent \in Nat /\ listed[m] \in Feeds \cup {NoFeed}
  BY FundAccountsAssumption, LimitOrdersAssumption DEF FundInv, FundTypeOK
<1>2. /\ order \in LimitOrder /\ order.amountIn = amount /\ order.mint = m /\ order.side = side
      /\ order.status = "open" /\ order.ata /\ order.sol = 0 /\ order.held = 0
  BY <1>1 DEF NewLimit, LimitOrder
<1>3. vault \in Nat /\ tokens \in [Mints -> Nat] /\ nextOrderId \in Nat
  BY DEF FundInv, FundTypeOK
<1>4. CASE side = "BUY" /\ CreateBuyLimit(order)
  <2>1. /\ buy \in LimitOrder /\ buy.status = "open" /\ buy.ata /\ buy.side = "BUY"
        /\ buy.sol = SolVaultRent + buy.amountIn /\ buy.held = 0
    BY <1>1, <1>2, <1>4 DEF LimitOrder
  <2>2. RegisterLimit(buy)
    BY <1>4 DEF CreateBuyLimit
  <2>3. LimitInv' /\ nextOrderId' \in Nat
    BY <2>1, <2>2, RegisterKeepsLimits
  <2>4. vault' \in Nat /\ tokens' \in [Mints -> Nat]
    BY <1>1, <1>2, <1>3, <1>4 DEF CreateBuyLimit
  <2>5. UNCHANGED <<now, whitelists, oracle>> /\ nextOrderId' = nextOrderId + 1
    BY <2>2 DEF RegisterLimit
  <2> QED
    BY <2>3, <2>4, <2>5, MovesKeepFund
<1>5. CASE side = "SELL" /\ CreateSellLimit(order)
  <2>1. /\ sell \in LimitOrder /\ sell.status = "open" /\ sell.ata /\ sell.side = "SELL"
        /\ sell.sol = 0 /\ sell.held = sell.amountIn
    BY <1>1, <1>2, <1>5 DEF LimitOrder
  <2>2. RegisterLimit(sell)
    BY <1>5 DEF CreateSellLimit
  <2>3. LimitInv' /\ nextOrderId' \in Nat
    BY <2>1, <2>2, RegisterKeepsLimits
  <2>4. vault' \in Nat /\ tokens' \in [Mints -> Nat]
    BY <1>1, <1>2, <1>3, <1>5 DEF CreateSellLimit
  <2>5. UNCHANGED <<now, whitelists, oracle>> /\ nextOrderId' = nextOrderId + 1
    BY <2>2 DEF RegisterLimit
  <2> QED
    BY <2>3, <2>4, <2>5, MovesKeepFund
<1> QED
  BY <1>4, <1>5 DEF CreateLimitOrder

\* execute_limit_order.
LEMMA ExecuteKeepsLimits ==
    ASSUME FundInv, LimitInv, NEW i \in OrderIds, NEW out \in Outs, ExecuteLimitOrder(i, out)
    PROVE  LimitInv' /\ FundInv'
<1> DEFINE order == limit[i]
<1>1. limit \in [OrderIds -> LimitOrder] /\ order \in LimitOrder
  BY DEF LimitInv, LimitTypeOK, LimitOrder
<1>2. vault \in Nat /\ tokens \in [Mints -> Nat] /\ nextOrderId \in Nat
  BY DEF FundInv, FundTypeOK
<1>3. out \in Nat /\ TokenAccountRent \in Nat
  BY FundAccountsAssumption
<1>4. /\ activeLimit' = activeLimit - 1
      /\ UNCHANGED <<now, whitelists, oracle>> /\ UNCHANGED nextOrderId
      /\ ExecuteBuyLimit(i, out) \/ ExecuteSellLimit(i, out)
  BY DEF ExecuteLimitOrder
<1>5. /\ order.status = "open" /\ vault' \in Nat /\ tokens' \in [Mints -> Nat]
      /\ \E sol \in Nat : limit' = [limit EXCEPT ![i] = ExecutedLimit(order, sol)]
  <2>1. CASE ExecuteBuyLimit(i, out)
    <3>1. order.sol - order.amountIn \in Nat
      BY <2>1, <1>1 DEF ExecuteBuyLimit, LimitOrder
    <3>2. /\ order.status = "open" /\ order.mint \in Mints
          /\ limit' = [limit EXCEPT ![i] = ExecutedLimit(order, order.sol - order.amountIn)]
          /\ tokens' = [tokens EXCEPT ![order.mint] = @ + out] /\ vault' = vault + TokenAccountRent
      BY <2>1, <1>1 DEF ExecuteBuyLimit, LimitExecutable, LimitOrder
    <3>3. vault' \in Nat /\ tokens' \in [Mints -> Nat]
      BY <3>2, <1>2, <1>3
    <3>4. \E sol \in Nat : limit' = [limit EXCEPT ![i] = ExecutedLimit(order, sol)]
      BY <3>1, <3>2, Zenon
    <3> QED
      BY <3>2, <3>3, <3>4
  <2>2. CASE ExecuteSellLimit(i, out)
    <3>1. order.sol \in Nat
      BY <1>1 DEF LimitOrder
    <3>2. /\ order.status = "open" /\ UNCHANGED tokens
          /\ limit' = [limit EXCEPT ![i] = ExecutedLimit(order, order.sol)]
          /\ vault' = vault + out + TokenAccountRent
      BY <2>2 DEF ExecuteSellLimit, LimitExecutable
    <3>3. vault' \in Nat /\ tokens' \in [Mints -> Nat]
      BY <3>2, <1>2, <1>3
    <3>4. \E sol \in Nat : limit' = [limit EXCEPT ![i] = ExecutedLimit(order, sol)]
      BY <3>1, <3>2, Zenon
    <3> QED
      BY <3>2, <3>3, <3>4
  <2> QED
    BY <1>4, <2>1, <2>2
<1>6. PICK sol \in Nat : limit' = [limit EXCEPT ![i] = ExecutedLimit(order, sol)]
  BY <1>5
<1>7. /\ ExecutedLimit(order, sol) \in LimitOrder /\ ExecutedLimit(order, sol).status # "open"
      /\ ~ExecutedLimit(order, sol).ata /\ ExecutedLimit(order, sol).held = 0
  BY <1>1 DEF ExecutedLimit, LimitOrder
<1>8. LimitInv'
  BY <1>4, <1>5, <1>6, <1>7, ClosingKeepsLimits
<1> QED
  BY <1>2, <1>4, <1>5, <1>8, MovesKeepFund

\* cancel_limit_order.
LEMMA CancelKeepsLimits ==
    ASSUME FundInv, LimitInv, NEW i \in OrderIds, CancelLimitOrder(i)
    PROVE  LimitInv' /\ FundInv'
<1> DEFINE order == limit[i]
<1>1. limit \in [OrderIds -> LimitOrder] /\ order \in LimitOrder
  BY DEF LimitInv, LimitTypeOK, LimitOrder
<1>2. vault \in Nat /\ tokens \in [Mints -> Nat] /\ nextOrderId \in Nat
  BY DEF FundInv, FundTypeOK
<1>3. TokenAccountRent \in Nat /\ OrderRent \in Nat /\ (CHOOSE m \in Mints : TRUE) \in Mints
  BY FundAccountsAssumption
<1>4. /\ order.status = "open" /\ activeLimit' = activeLimit - 1
      /\ UNCHANGED <<now, whitelists, oracle>> /\ UNCHANGED nextOrderId
      /\ limit' = [limit EXCEPT ![i] = NoLimit]
  BY DEF CancelLimitOrder, LimitCancellable
<1>5. vault' \in Nat /\ tokens' \in [Mints -> Nat]
  BY <1>1, <1>2, <1>3 DEF CancelLimitOrder, CancelBuyLimit, CancelSellLimit, LimitOrder
<1>6. NoLimit \in LimitOrder /\ NoLimit.status # "open" /\ ~NoLimit.ata /\ NoLimit.held = 0
  BY <1>3 DEF NoLimit, LimitOrder
<1>7. LimitInv'
  BY <1>4, <1>6, ClosingKeepsLimits
<1> QED
  BY <1>2, <1>4, <1>5, <1>7, MovesKeepFund

\* Whatever is done with limit orders, in any order.
LEMMA LimitNextKeeps ==
    ASSUME FundInv, LimitInv, LimitNext
    PROVE  FundInv' /\ LimitInv' /\ nextOrderId' >= nextOrderId
<1>1. nextOrderId \in Nat
  BY DEF FundInv, FundTypeOK
<1>2. ASSUME NEW i \in OrderIds, NEW out \in Outs, ExecuteLimitOrder(i, out)
      PROVE  FundInv' /\ LimitInv' /\ nextOrderId' >= nextOrderId
  BY <1>1, <1>2, ExecuteKeepsLimits DEF ExecuteLimitOrder
<1>3. ASSUME NEW i \in OrderIds, CancelLimitOrder(i)
      PROVE  FundInv' /\ LimitInv' /\ nextOrderId' >= nextOrderId
  <2>1. FundInv' /\ LimitInv' /\ nextOrderId' = nextOrderId
    BY <1>3, CancelKeepsLimits DEF CancelLimitOrder
  <2> QED
    BY <1>1, <2>1
<1>4. ASSUME NEW side \in {"BUY", "SELL"}, NEW m \in Mints, NEW amount \in Amounts,
             NEW minOut \in MinOuts, NEW limitPrice \in LimitPrices, NEW unit \in PriceUnits,
             NEW expiry \in Expiries,
             CreateLimitOrder(side, m, amount, minOut, limitPrice, unit, expiry)
      PROVE  FundInv' /\ LimitInv' /\ nextOrderId' >= nextOrderId
  <2>1. FundInv' /\ LimitInv' /\ nextOrderId' = nextOrderId + 1
    BY <1>4, CreateKeepsLimits
  <2> QED
    BY <1>1, <2>1
<1> QED
  BY <1>2, <1>3, <1>4, Zenon DEF LimitNext

\* The invariant of a fund with limit orders.
LEMMA LimitFundInvariant == LimitSpec => [](FundInv /\ LimitInv)
<1>1. LimitFundInit => FundInv /\ LimitInv
  BY FundInitHolds, LimitInitHolds DEF LimitFundInit
<1>2. FundInv /\ LimitInv /\ [LimitFundNext]_LimitFundVars => (FundInv /\ LimitInv)'
  <2> SUFFICES ASSUME FundInv, LimitInv, [LimitFundNext]_LimitFundVars
               PROVE  FundInv' /\ LimitInv'
    OBVIOUS
  <2>0. nextOrderId \in Nat
    BY DEF FundInv, FundTypeOK
  <2>1. CASE FundNext /\ UNCHANGED limitVars
    <3>1. FundInv' /\ nextOrderId' = nextOrderId
      BY <2>1, FundNextKeepsFund, FundNextKeepsIds
    <3> QED
      BY <2>0, <2>1, <3>1, OthersKeepLimits
  <2>2. CASE LimitNext
    BY <2>2, LimitNextKeeps
  <2>3. CASE UNCHANGED LimitFundVars
    <3>1. UNCHANGED <<fundVars, limitVars>>
      BY <2>3 DEF LimitFundVars
    <3>2. UNCHANGED <<now, whitelists, oracle>> /\ UNCHANGED <<vault, tokens, nextOrderId>>
      BY <3>1 DEF fundVars, holdings
    <3>3. FundInv'
      BY <3>2, MovesKeepFund DEF FundInv, FundTypeOK
    <3> QED
      BY <2>0, <3>1, <3>2, <3>3, OthersKeepLimits
  <2> QED
    BY <2>1, <2>2, <2>3 DEF LimitFundNext
<1> QED
  BY <1>1, <1>2, PTL DEF LimitSpec

\* Every field of the fund's accounts and of its limit orders keeps its type: no
\* balance, escrow or counter ever goes below zero.
THEOREM LimitFundTyped == LimitSpec => []LimitFundTypeOK
<1>1. FundInv /\ LimitInv => LimitFundTypeOK
  BY DEF FundInv, LimitInv, LimitFundTypeOK
<1> QED
  BY <1>1, LimitFundInvariant, PTL

\* fund_state.enabled_token_count is never above the number of whitelist entries the
\* fund has, whichever mints remove_token is called for and however often: there are
\* always enough entries to show for a NAV computation.
THEOREM CountWithin == LimitSpec => []CountWithinListed
<1>1. FundInv /\ LimitInv => CountWithinListed
  BY DEF FundInv
<1> QED
  BY <1>1, LimitFundInvariant, PTL

\* fund_state.active_limit_count is the number of open limit orders.
THEOREM LimitCount == LimitSpec => []LimitCountExact
<1>1. FundInv /\ LimitInv => LimitCountExact
  BY DEF LimitInv
<1> QED
  BY <1>1, LimitFundInvariant, PTL

\* The accounts of an open limit order hold its escrow and nothing else, those of a
\* finished one no token.
THEOREM LimitEscrow == LimitSpec => []LimitEscrowExact
<1>1. FundInv /\ LimitInv => LimitEscrowExact
  BY DEF LimitInv
<1> QED
  BY <1>1, LimitFundInvariant, PTL

-----------------------------------------------------------------------------
(* DCA orders.                                                             *)

\* The records that DCA orders are kept in.
DcaOrder ==
    [status : {"none", "open", "executed", "cancelled"}, side : {"BUY", "SELL"},
     mint : Mints, total : Nat, slice : Nat, remaining : Nat, interval : Nat,
     nextExec : Nat, minOut : Nat, feed : Feeds \cup {NoFeed}, expiry : Nat,
     sol : Nat, ata : BOOLEAN, held : Nat]

\* What the accounts of one order hold (DcaEscrowExact).
HoldsRest(order) ==
    IF order.status = "open"
    THEN /\ order.ata /\ order.remaining > 0
         /\ IF order.side = "BUY"
            THEN order.sol = SolVaultRent + order.remaining /\ order.held = 0
            ELSE order.sol = SolVaultRent /\ order.held = order.remaining
    ELSE ~order.ata /\ order.held = 0 /\ order.sol <= SolVaultRent

\* One order that was created at ts[1] and executed at ts[2], ts[3], ...: the next
\* slice is due one interval after the last one was due (this is what makes DcaPace
\* inductive), and so many slices are gone.
OnSchedule(order, ts) ==
    /\ Len(ts) >= 1
    /\ order.nextExec = ts[1] + Len(ts) * order.interval
    /\ \A k \in 2 .. Len(ts) : ts[k] >= ts[1] + (k - 1) * order.interval
    /\ LET done == (Len(ts) - 1) * order.slice
       IN  order.remaining = IF done >= order.total THEN 0 ELSE order.total - done

DcaScheduled ==
    \A i \in OrderIds :
        IF dca[i].status = "none" THEN times[i] = <<>> ELSE OnSchedule(dca[i], times[i])

\* Ids that were not handed out yet belong to no order.
DcaIdsFresh == \A i \in OrderIds : i >= nextOrderId => dca[i].status = "none"

DcaInv ==
    /\ DcaTypeOK
    /\ DcaCountExact
    /\ DcaEscrowExact
    /\ DcaScheduled
    /\ DcaIdsFresh

\* The set of open orders is finite.
LEMMA OpenDcasFinite == IsFiniteSet(OpenDcas) /\ Cardinality(OpenDcas) \in Nat
  BY FundAccountsAssumption, FS_Subset, FS_CardinalityType DEF OpenDcas

\* The escrow invariant, order by order.
LEMMA EscrowByOrder == DcaEscrowExact <=> \A i \in OrderIds : HoldsRest(dca[i])
  BY DEF DcaEscrowExact, HoldsRest, OpenDcas

\* No order, no escrow, no schedule.
LEMMA DcaInitHolds == DcaInit => DcaInv
<1> SUFFICES ASSUME DcaInit PROVE DcaInv
  OBVIOUS
<1>1. OpenDcas = {}
  BY DEF DcaInit, OpenDcas, NoDca
<1>2. (CHOOSE m \in Mints : TRUE) \in Mints /\ SolVaultRent \in Nat
  BY FundAccountsAssumption
<1>3. DcaTypeOK
  BY <1>2 DEF DcaInit, DcaTypeOK, NoDca
<1>4. DcaEscrowExact /\ DcaIdsFresh /\ DcaScheduled
  BY <1>1, <1>2 DEF DcaInit, DcaEscrowExact, DcaIdsFresh, DcaScheduled, NoDca
<1>5. DcaCountExact
  BY <1>1, FS_EmptySet, DcaOrdersAssumption DEF DcaCountExact, DcaInit
<1> QED
  BY <1>3, <1>4, <1>5 DEF DcaInv

\* Instructions about anything else, which may hand out order ids.
LEMMA OthersKeepDcas ==
    ASSUME DcaInv, UNCHANGED dcaVars, nextOrderId \in Nat, nextOrderId' \in Nat,
           nextOrderId' >= nextOrderId
    PROVE  DcaInv'
<1>1. dca' = dca /\ activeDca' = activeDca /\ times' = times
  BY DEF dcaVars
<1>2. DcaIdsFresh'
  BY <1>1, FundAccountsAssumption DEF DcaInv, DcaIdsFresh
<1> QED
  BY <1>1, <1>2 DEF DcaInv, DcaTypeOK, DcaCountExact, DcaEscrowExact, DcaScheduled, OpenDcas

\* A new open order with its whole escrow, under the next id.
LEMMA RegisterKeepsDcas ==
    ASSUME FundInv, DcaInv, NEW order \in DcaOrder, RegisterDca(order),
           order.status = "open", order.remaining = order.total,
           order.nextExec = now + order.interval, HoldsRest(order)
    PROVE  DcaInv' /\ nextOrderId' \in Nat
<1> DEFINE n == nextOrderId
<1>1. n \in OrderIds /\ n \in Nat /\ n' = n + 1 /\ now \in Nat
  BY DEF RegisterDca, FundInv, FundTypeOK
<1>2. dca' = [dca EXCEPT ![n] = order] /\ activeDca' = activeDca + 1 /\ times' = [times EXCEPT ![n] = <<now>>]
  BY DEF RegisterDca
<1>3. dca \in [OrderIds -> DcaOrder] /\ activeDca \in Nat /\ times \in [OrderIds -> Seq(Nat)]
  BY DEF DcaInv, DcaTypeOK, DcaOrder
<1>4. dca' \in [OrderIds -> DcaOrder] /\ activeDca' \in Nat /\ times' \in [OrderIds -> Seq(Nat)]
  BY <1>1, <1>2, <1>3
<1>5. dca[n].status = "none"
  BY <1>1 DEF DcaInv, DcaIdsFresh
<1>6. /\ dca'[n] = order /\ times'[n] = <<now>>
      /\ \A i \in OrderIds \ {n} : dca'[i] = dca[i] /\ times'[i] = times[i]
  BY <1>1, <1>2, <1>3
<1>7. OpenDcas' = OpenDcas \cup {n} /\ n \notin OpenDcas
  BY <1>1, <1>5, <1>6 DEF OpenDcas
<1>8. DcaCountExact'
  <2>1. Cardinality(OpenDcas') = Cardinality(OpenDcas) + 1
    BY <1>7, OpenDcasFinite, FS_AddElement
  <2>2. activeDca < MaxActiveDca
    BY DEF RegisterDca, SlotFree
  <2> QED
    BY <2>1, <2>2, <1>2, <1>3, DcaOrdersAssumption DEF DcaInv, DcaCountExact
<1>9. DcaEscrowExact'
  <2>1. \A i \in OrderIds : HoldsRest(dca'[i])
    BY <1>1, <1>6, EscrowByOrder DEF DcaInv
  <2> QED
    BY <2>1 DEF DcaEscrowExact, HoldsRest, OpenDcas
<1>10. DcaIdsFresh'
  <2> SUFFICES ASSUME NEW i \in OrderIds, i >= n' PROVE dca'[i].status = "none"
    BY DEF DcaIdsFresh
  <2>1. i \in Nat /\ i # n /\ i >= n
    BY <1>1, FundAccountsAssumption
  <2> QED
    BY <2>1, <1>6 DEF DcaInv, DcaIdsFresh
<1>11. DcaScheduled'
  <2>1. order.total \in Nat /\ order.total > 0 /\ order.slice \in Nat /\ order.interval \in Nat
    BY DEF RegisterDca, DcaOrder
  <2>2. Len(<<now>>) = 1 /\ <<now>>[1] = now
    OBVIOUS
  <2>3. (1 - 1) * order.slice = 0 /\ 1 * order.interval = order.interval
    BY <2>1
  <2>4. OnSchedule(order, <<now>>)
    BY <2>1, <2>2, <2>3, <1>1 DEF OnSchedule
  <2> QED
    BY <2>4, <1>1, <1>6 DEF DcaInv, DcaScheduled
<1>12. DcaTypeOK'
  BY <1>4 DEF DcaTypeOK, DcaOrder
<1> QED
  BY <1>1, <1>8, <1>9, <1>10, <1>11, <1>12 DEF DcaInv

\* An open order after one of its slices, or closed.
LEMMA UpdateKeepsDcas ==
    ASSUME FundInv, DcaInv, NEW i \in OrderIds, NEW order \in DcaOrder, NEW ts \in Seq(Nat),
           dca[i].status = "open", order.status # "none",
           dca' = [dca EXCEPT ![i] = order], times' = [times EXCEPT ![i] = ts],
           activeDca' = IF order.status = "open" THEN activeDca ELSE activeDca - 1,
           HoldsRest(order), OnSchedule(order, ts), UNCHANGED nextOrderId
    PROVE  DcaInv'
<1>1. dca \in [OrderIds -> DcaOrder] /\ activeDca \in Nat /\ times \in [OrderIds -> Seq(Nat)]
  BY DEF DcaInv, DcaTypeOK, DcaOrder
<1>2. /\ dca'[i] = order /\ times'[i] = ts
      /\ \A j \in OrderIds \ {i} : dca'[j] = dca[j] /\ times'[j] = times[j]
  BY <1>1
<1>3. activeDca' = Cardinality(OpenDcas') /\ Cardinality(OpenDcas') \in Nat /\ activeDca' <= activeDca
  <2>1. CASE order.status = "open"
    <3>1. OpenDcas' = OpenDcas
      BY <2>1, <1>2 DEF OpenDcas
    <3> QED
      BY <2>1, <3>1, <1>1, OpenDcasFinite DEF DcaInv, DcaCountExact
  <2>2. CASE order.status # "open"
    <3>1. OpenDcas' = OpenDcas \ {i} /\ i \in OpenDcas
      BY <2>2, <1>2 DEF OpenDcas
    <3>2. /\ IsFiniteSet(OpenDcas') /\ Cardinality(OpenDcas') = Cardinality(OpenDcas) - 1
          /\ Cardinality(OpenDcas') \in Nat
      BY <3>1, OpenDcasFinite, FS_RemoveElement, FS_CardinalityType
    <3> QED
      BY <2>2, <3>2, <1>1 DEF DcaInv, DcaCountExact
  <2> QED
    BY <2>1, <2>2
<1>4. DcaCountExact'
  BY <1>1, <1>3, DcaOrdersAssumption DEF DcaInv, DcaCountExact
<1>5. dca' \in [OrderIds -> DcaOrder] /\ activeDca' \in Nat /\ times' \in [OrderIds -> Seq(Nat)]
  BY <1>1, <1>3
<1>6. DcaEscrowExact'
  <2>1. \A j \in OrderIds : HoldsRest(dca'[j])
    BY <1>2, EscrowByOrder DEF DcaInv
  <2> QED
    BY <2>1 DEF DcaEscrowExact, HoldsRest, OpenDcas
<1>7. DcaIdsFresh'
  BY <1>2 DEF DcaInv, DcaIdsFresh
<1>8. DcaScheduled'
  BY <1>2 DEF DcaInv, DcaScheduled
<1> QED
  BY <1>4, <1>5, <1>6, <1>7, <1>8 DEF DcaInv, DcaTypeOK, DcaOrder

\* create_dca_order.
LEMMA CreateKeepsDcas ==
    ASSUME FundInv, DcaInv,
           NEW side \in {"BUY", "SELL"}, NEW m \in Mints, NEW total \in Amounts,
           NEW slice \in Amounts, NEW interval \in Intervals, NEW minOut \in MinOuts,
           NEW expiry \in Expiries,
           CreateDcaOrder(side, m, total, slice, interval, minOut, expiry)
    PROVE  DcaInv' /\ FundInv' /\ nextOrderId' = nextOrderId + 1
<1> DEFINE order == NewDca(side, m, total, slice, interval, minOut, expiry)
           buy == [order EXCEPT !.sol = @ + order.total]
           sell == [order EXCEPT !.held = order.total]
<1>1. /\ total \in Nat /\ slice \in Nat /\ interval \in Nat /\ minOut \in Nat /\ expiry \in Nat
      /\ SolVaultRent \in Nat /\ listed[m] \in Feeds \cup {NoFeed}
      /\ vault \in Nat /\ tokens \in [Mints -> Nat] /\ nextOrderId \in Nat /\ now \in Nat
  BY FundAccountsAssumption, DcaOrdersAssumption DEF FundInv, FundTypeOK
<1>2. /\ order \in DcaOrder /\ order.total = total /\ order.mint = m /\ order.side = side
      /\ order.status = "open" /\ order.ata /\ order.sol = SolVaultRent /\ order.held = 0
      /\ order.remaining = total /\ order.nextExec = now + order.interval
  BY <1>1 DEF NewDca, DcaOrder
<1>3. CASE side = "BUY" /\ CreateBuyDca(order)
  <2>1. RegisterDca(buy) /\ buy.total > 0
    BY <1>3 DEF CreateBuyDca, RegisterDca
  <2>2. /\ buy \in DcaOrder /\ buy.status = "open" /\ buy.remaining = buy.total
        /\ buy.nextExec = now + buy.interval /\ HoldsRest(buy)
    BY <1>1, <1>2, <1>3, <2>1 DEF DcaOrder, HoldsRest
  <2>3. DcaInv' /\ nextOrderId' \in Nat
    BY <2>1, <2>2, RegisterKeepsDcas
  <2>4. vault' \in Nat /\ tokens' \in [Mints -> Nat]
    BY <1>1, <1>2, <1>3 DEF CreateBuyDca
  <2>5. UNCHANGED <<now, whitelists, oracle>> /\ nextOrderId' = nextOrderId + 1
    BY <2>1 DEF RegisterDca
  <2> QED
    BY <2>3, <2>4, <2>5, MovesKeepFund
<1>4. CASE side = "SELL" /\ CreateSellDca(order)
  <2>1. RegisterDca(sell) /\ sell.total > 0
    BY <1>4 DEF CreateSellDca, RegisterDca
  <2>2. /\ sell \in DcaOrder /\ sell.status = "open" /\ sell.remaining = sell.total
        /\ sell.nextExec = now + sell.interval /\ HoldsRest(sell)
    BY <1>1, <1>2, <1>4, <2>1 DEF DcaOrder, HoldsRest
  <2>3. DcaInv' /\ nextOrderId' \in Nat
    BY <2>1, <2>2, RegisterKeepsDcas
  <2>4. vault' \in Nat /\ tokens' \in [Mints -> Nat]
    BY <1>1, <1>2, <1>4 DEF CreateSellDca
  <2>5. UNCHANGED <<now, whitelists, oracle>> /\ nextOrderId' = nextOrderId + 1
    BY <2>1 DEF RegisterDca
  <2> QED
    BY <2>3, <2>4, <2>5, MovesKeepFund
<1> QED
  BY <1>3, <1>4 DEF CreateDcaOrder

\* What one call takes is a part of what remains, and all of it only if what remains is
\* at most a slice.
LEMMA SliceInRest ==
    ASSUME NEW order \in DcaOrder, SliceOf(order) > 0
    PROVE  /\ SliceOf(order) \in Nat /\ SliceOf(order) <= order.remaining /\ order.remaining > 0
           /\ SliceOf(order) = IF order.remaining >= order.slice THEN order.slice ELSE order.remaining
  BY DEF DcaOrder, SliceOf

\* A slice that is executed when it is due, or later, keeps the order on schedule.
LEMMA SliceKeepsSchedule ==
    ASSUME NEW order \in DcaOrder, NEW ts \in Seq(Nat), OnSchedule(order, ts),
           NEW t \in Nat, t >= order.nextExec, SliceOf(order) > 0,
           NEW next \in DcaOrder, next.interval = order.interval, next.total = order.total,
           next.slice = order.slice, next.nextExec = order.nextExec + order.interval,
           next.remaining = order.remaining - SliceOf(order)
    PROVE  OnSchedule(next, Append(ts, t))
<1> DEFINE n == Len(ts)
           us == Append(ts, t)
           iv == order.interval
           sl == order.slice
<1>1. /\ n \in Nat /\ n >= 1 /\ iv \in Nat /\ sl \in Nat /\ order.total \in Nat
      /\ order.remaining \in Nat
  <2>1. n \in Nat
    OBVIOUS
  <2>2. n >= 1
    BY DEF OnSchedule
  <2> QED
    BY <2>1, <2>2 DEF DcaOrder
<1>2. Len(us) = n + 1 /\ us[n + 1] = t /\ \A k \in 1 .. n : us[k] = ts[k]
  OBVIOUS
<1>3. (n + 1) * iv = n * iv + iv /\ ((n + 1) - 1) * iv = n * iv /\ n * iv \in Nat
  <2> HIDE DEF n, iv
  <2>1. (n + 1) * iv = n * iv + iv /\ (n + 1) - 1 = n
    BY <1>1
  <2> QED
    BY <1>1, <2>1
<1>4. us[1] = ts[1] /\ ts[1] \in Nat
  BY <1>1, <1>2
<1>5. next.nextExec = us[1] + Len(us) * next.interval
  <2>1. order.nextExec = ts[1] + n * iv /\ next.interval = iv
    BY DEF OnSchedule
  <2>2. next.nextExec = ts[1] + n * iv + iv
    BY <2>1
  <2> HIDE DEF n, iv, us
  <2> QED
    BY <1>1, <1>2, <1>3, <1>4, <2>1, <2>2
<1>6. ASSUME NEW k \in 2 .. Len(us) PROVE us[k] >= us[1] + (k - 1) * next.interval
  <2>1. CASE k \in 2 .. n
    <3>1. ts[k] >= ts[1] + (k - 1) * iv /\ us[k] = ts[k]
      BY <2>1, <1>2 DEF OnSchedule
    <3> QED
      BY <3>1, <1>4
  <2>2. CASE k = n + 1
    BY <2>2, <1>2, <1>3, <1>4 DEF OnSchedule
  <2> QED
    BY <2>1, <2>2, <1>1, <1>2
<1>7. LET done == (Len(us) - 1) * next.slice
      IN  next.remaining = IF done >= next.total THEN 0 ELSE next.total - done
  <2> DEFINE before == (n - 1) * sl
             after == (Len(us) - 1) * sl
  <2>1. before \in Nat /\ after = before + sl
    <3>1. n \in Nat \ {0} /\ sl \in Nat /\ Len(us) = n + 1
      BY <1>1, <1>2
    <3>2. \A p \in Nat \ {0}, x \in Nat : (p - 1) * x \in Nat /\ p * x = (p - 1) * x + x
      BY Z3
    <3> HIDE DEF n, us, sl
    <3>3. (n - 1) * sl \in Nat /\ n * sl = (n - 1) * sl + sl /\ Len(us) - 1 = n
      BY <3>1, <3>2
    <3> QED
      BY <3>3
  <2>2. order.remaining = IF before >= order.total THEN 0 ELSE order.total - before
    BY DEF OnSchedule
  <2>3. order.remaining > 0 /\ SliceOf(order) = IF order.remaining >= sl THEN sl ELSE order.remaining
    BY SliceInRest
  <2> HIDE DEF before, after, n, us, sl
  <2>4. next.remaining = IF after >= next.total THEN 0 ELSE next.total - after
    BY <1>1, <2>1, <2>2, <2>3
  <2> QED
    BY <2>4 DEF after, sl
<1>8. Len(us) >= 1
  BY <1>1, <1>2
<1> QED
  BY <1>5, <1>6, <1>7, <1>8, Zenon DEF OnSchedule

\* `after` is an open order whose vaults have given one slice.
SliceTaken(order, after) ==
    /\ after \in DcaOrder
    /\ after.status = "open" /\ after.side = order.side /\ after.mint = order.mint
    /\ after.ata = order.ata
    /\ after.interval = order.interval /\ after.total = order.total /\ after.slice = order.slice
    /\ after.nextExec = order.nextExec + order.interval
    /\ after.remaining = order.remaining - SliceOf(order)
    /\ IF order.side = "BUY"
       THEN after.sol = order.sol - SliceOf(order) /\ after.held = order.held
       ELSE after.sol = order.sol /\ after.held = order.held - SliceOf(order)

\* A slice of a BUY order is taken from its SOL vault.
LEMMA BuySliceTaken ==
    ASSUME NEW order \in DcaOrder, order.status = "open", order.side = "BUY",
           SliceOf(order) > 0, order.sol >= SliceOf(order)
    PROVE  SliceTaken(order, [AfterSlice(order) EXCEPT !.sol = @ - SliceOf(order)])
<1>1. SliceOf(order) \in Nat /\ SliceOf(order) <= order.remaining
  BY SliceInRest
<1>2. order.remaining - SliceOf(order) \in Nat /\ order.sol - SliceOf(order) \in Nat
      /\ order.nextExec + order.interval \in Nat
  BY <1>1 DEF DcaOrder
<1>3. AfterSlice(order) \in DcaOrder
  BY <1>2 DEF AfterSlice, DcaOrder
<1> QED
  BY <1>2, <1>3 DEF SliceTaken, AfterSlice, DcaOrder

\* A slice of a SELL order is taken from its token account.
LEMMA SellSliceTaken ==
    ASSUME NEW order \in DcaOrder, order.status = "open", order.side = "SELL",
           SliceOf(order) > 0, order.held >= SliceOf(order)
    PROVE  SliceTaken(order, [AfterSlice(order) EXCEPT !.held = @ - SliceOf(order)])
<1>1. SliceOf(order) \in Nat /\ SliceOf(order) <= order.remaining
  BY SliceInRest
<1>2. order.remaining - SliceOf(order) \in Nat /\ order.held - SliceOf(order) \in Nat
      /\ order.nextExec + order.interval \in Nat
  BY <1>1 DEF DcaOrder
<1>3. AfterSlice(order) \in DcaOrder
  BY <1>2 DEF AfterSlice, DcaOrder
<1> QED
  BY <1>2, <1>3 DEF SliceTaken, AfterSlice, DcaOrder

\* What settling a slice leaves of an order whose vaults have given the slice.
LEMMA SettledHoldsRest ==
    ASSUME NEW order \in DcaOrder, order.status = "open", HoldsRest(order), SliceOf(order) > 0,
           NEW after, SliceTaken(order, after)
    PROVE  /\ Settled(after) \in DcaOrder
           /\ HoldsRest(Settled(after))
           /\ Settled(after).status = IF Finished(after) THEN "executed" ELSE "open"
           /\ Settled(after).interval = order.interval
           /\ Settled(after).total = order.total
           /\ Settled(after).slice = order.slice
           /\ Settled(after).nextExec = order.nextExec + order.interval
           /\ Settled(after).remaining = order.remaining - SliceOf(order)
           /\ Swept(after) \in Nat
<1> DEFINE sl == SliceOf(order)
<1>1. sl \in Nat /\ sl <= order.remaining /\ sl > 0 /\ SolVaultRent \in Nat /\ TokenAccountRent \in Nat
  BY SliceInRest, FundAccountsAssumption
<1>2. /\ after \in DcaOrder /\ after.status = "open" /\ after.side = order.side /\ after.ata = order.ata
      /\ after.interval = order.interval /\ after.total = order.total /\ after.slice = order.slice
      /\ after.nextExec = order.nextExec + order.interval
      /\ after.remaining = order.remaining - sl
  BY DEF SliceTaken
<1>3. order.ata /\ order.remaining \in Nat
  BY DEF HoldsRest, DcaOrder
<1>4. /\ after.ata /\ after.remaining \in Nat
      /\ IF after.side = "BUY"
         THEN after.sol = SolVaultRent + after.remaining /\ after.held = 0
         ELSE after.sol = SolVaultRent /\ after.held = after.remaining
  <2>1. after.ata /\ after.remaining \in Nat
    BY <1>1, <1>2, <1>3
  <2>2. CASE order.side = "BUY"
    <3>1. /\ order.sol = SolVaultRent + order.remaining /\ order.held = 0
          /\ after.sol = order.sol - sl /\ after.held = order.held
      BY <2>2 DEF HoldsRest, SliceTaken
    <3> HIDE DEF sl
    <3> QED
      BY <1>1, <1>2, <1>3, <2>1, <2>2, <3>1
  <2>3. CASE order.side # "BUY"
    <3>1. /\ order.sol = SolVaultRent /\ order.held = order.remaining
          /\ after.sol = order.sol /\ after.held = order.held - sl
      BY <2>3 DEF HoldsRest, SliceTaken
    <3> HIDE DEF sl
    <3> QED
      BY <1>1, <1>2, <1>3, <2>1, <2>3, <3>1
  <2> QED
    BY <2>2, <2>3
<1>5. CASE Finished(after)
  <2>1. after.remaining = 0 /\ after.held = 0 /\ after.sol = SolVaultRent
    BY <1>1, <1>4, <1>5 DEF Finished
  <2>2. Settled(after) = [after EXCEPT !.status = "executed", !.sol = 0, !.ata = FALSE]
    BY <1>5, <2>1 DEF Settled
  <2>3. /\ Settled(after) \in DcaOrder /\ Settled(after).status = "executed"
        /\ Settled(after).sol = 0 /\ ~Settled(after).ata /\ Settled(after).held = 0
    <3>1. Settled(after) \in DcaOrder
      <4>1. \A r \in DcaOrder :
              [r EXCEPT !.status = "executed", !.sol = 0, !.ata = FALSE] \in DcaOrder
        BY DEF DcaOrder
      <4> QED
        BY <1>2, <2>2, <4>1
    <3>2. /\ Settled(after).status = "executed" /\ Settled(after).sol = 0
          /\ ~Settled(after).ata /\ Settled(after).held = after.held
      BY <1>2, <2>2 DEF DcaOrder
    <3> QED
      BY <2>1, <3>1, <3>2
  <2>4. /\ Settled(after).interval = after.interval /\ Settled(after).total = after.total
        /\ Settled(after).slice = after.slice /\ Settled(after).nextExec = after.nextExec
        /\ Settled(after).remaining = after.remaining
    BY <1>2, <2>2 DEF DcaOrder
  <2>5. HoldsRest(Settled(after))
    BY <1>1, <2>3 DEF HoldsRest
  <2>6. Swept(after) \in Nat
    BY <1>1, <1>5, <2>1 DEF Swept
  <2> QED
    BY <1>2, <1>5, <2>3, <2>4, <2>5, <2>6
<1>6. CASE ~Finished(after)
  <2>1. Settled(after) = after /\ Swept(after) = 0 /\ after.remaining > 0
    BY <1>4, <1>6 DEF Finished, Settled, Swept
  <2>2. HoldsRest(after)
    BY <1>2, <1>4, <2>1 DEF HoldsRest
  <2>3. Swept(after) \in Nat
    BY <2>1
  <2> HIDE DEF sl
  <2> QED
    BY <1>2, <1>6, <2>1, <2>2, <2>3 DEF sl
<1> QED
  BY <1>5, <1>6

\* What execute_dca_order does to the order and the fund, for both sides.
LEMMA ExecuteSettles ==
    ASSUME FundInv, DcaInv, NEW i \in OrderIds, NEW out \in Outs, ExecuteDcaOrder(i, out)
    PROVE  \E after : /\ SliceTaken(dca[i], after)
                      /\ dca' = [dca EXCEPT ![i] = Settled(after)]
                      /\ IF dca[i].side = "BUY"
                         THEN /\ vault' = vault + Swept(after)
                              /\ tokens' = [tokens EXCEPT ![dca[i].mint] = @ + out]
                         ELSE /\ vault' = vault + out + Swept(after)
                              /\ tokens' = tokens
<1>1. dca[i] \in DcaOrder
  BY DEF DcaInv, DcaTypeOK, DcaOrder
<1>2. dca[i].status = "open" /\ SliceOf(dca[i]) > 0 /\ (ExecuteBuyDca(i, out) \/ ExecuteSellDca(i, out))
  BY DEF ExecuteDcaOrder, DcaExecutable
<1>3. CASE ExecuteBuyDca(i, out)
  <2> DEFINE after == [AfterSlice(dca[i]) EXCEPT !.sol = @ - SliceOf(dca[i])]
  <2>1. /\ dca[i].side = "BUY" /\ dca[i].sol >= SliceOf(dca[i])
        /\ dca' = [dca EXCEPT ![i] = Settled(after)]
        /\ vault' = vault + Swept(after) /\ tokens' = [tokens EXCEPT ![dca[i].mint] = @ + out]
    BY <1>3 DEF ExecuteBuyDca
  <2>2. SliceTaken(dca[i], after)
    BY <1>1, <1>2, <2>1, BuySliceTaken
  <2> HIDE DEF after
  <2> QED
    BY <2>1, <2>2
<1>4. CASE ExecuteSellDca(i, out)
  <2> DEFINE after == [AfterSlice(dca[i]) EXCEPT !.held = @ - SliceOf(dca[i])]
  <2>1. /\ dca[i].side = "SELL" /\ dca[i].held >= SliceOf(dca[i])
        /\ dca' = [dca EXCEPT ![i] = Settled(after)]
        /\ vault' = vault + out + Swept(after) /\ tokens' = tokens
    BY <1>4 DEF ExecuteSellDca
  <2>2. SliceTaken(dca[i], after)
    BY <1>1, <1>2, <2>1, SellSliceTaken
  <2> HIDE DEF after
  <2> QED
    BY <2>1, <2>2
<1> QED
  BY <1>2, <1>3, <1>4

\* execute_dca_order.
LEMMA ExecuteKeepsDcas ==
    ASSUME FundInv, DcaInv, NEW i \in OrderIds, NEW out \in Outs, ExecuteDcaOrder(i, out)
    PROVE  DcaInv' /\ FundInv'
<1> DEFINE order == dca[i]
           ts == times[i]
<1>1. /\ order \in DcaOrder /\ ts \in Seq(Nat) /\ activeDca \in Nat
      /\ order.remaining \in Nat /\ order.mint \in Mints
  BY DEF DcaInv, DcaTypeOK, DcaOrder
<1>2. vault \in Nat /\ tokens \in [Mints -> Nat] /\ nextOrderId \in Nat /\ now \in Nat /\ out \in Nat
  BY FundAccountsAssumption DEF FundInv, FundTypeOK
<1>3. /\ order.status = "open" /\ now >= order.nextExec /\ SliceOf(order) > 0
      /\ activeDca' = (IF Finished(AfterSlice(order)) THEN activeDca - 1 ELSE activeDca)
      /\ times' = [times EXCEPT ![i] = Append(ts, now)]
      /\ UNCHANGED <<now, whitelists, oracle>> /\ UNCHANGED nextOrderId
  BY DEF ExecuteDcaOrder, DcaExecutable
<1>4. HoldsRest(order) /\ OnSchedule(order, ts)
  BY <1>3, EscrowByOrder DEF DcaInv, DcaScheduled
<1>5. PICK after : /\ SliceTaken(order, after)
                   /\ dca' = [dca EXCEPT ![i] = Settled(after)]
                   /\ IF order.side = "BUY"
                      THEN /\ vault' = vault + Swept(after)
                           /\ tokens' = [tokens EXCEPT ![order.mint] = @ + out]
                      ELSE /\ vault' = vault + out + Swept(after)
                           /\ tokens' = tokens
  BY ExecuteSettles
<1> DEFINE next == Settled(after)
<1>6. /\ next \in DcaOrder /\ HoldsRest(next) /\ Swept(after) \in Nat
      /\ next.status = (IF Finished(after) THEN "executed" ELSE "open")
      /\ next.interval = order.interval /\ next.total = order.total /\ next.slice = order.slice
      /\ next.nextExec = order.nextExec + order.interval
      /\ next.remaining = order.remaining - SliceOf(order)
  BY <1>1, <1>3, <1>4, <1>5, SettledHoldsRest
<1>7. Finished(after) <=> Finished(AfterSlice(order))
  <2>1. after.remaining = order.remaining - SliceOf(order)
    BY <1>5 DEF SliceTaken
  <2>2. AfterSlice(order).remaining = order.remaining - SliceOf(order)
    BY <1>1 DEF AfterSlice, DcaOrder
  <2> QED
    BY <2>1, <2>2 DEF Finished
<1> HIDE DEF next, order, ts
<1>8. OnSchedule(next, Append(ts, now)) /\ Append(ts, now) \in Seq(Nat)
  BY <1>1, <1>2, <1>3, <1>4, <1>6, SliceKeepsSchedule
<1>9. activeDca' = (IF next.status = "open" THEN activeDca ELSE activeDca - 1) /\ next.status # "none"
  BY <1>3, <1>6, <1>7
<1>10. DcaInv'
  BY <1>3, <1>5, <1>6, <1>8, <1>9, UpdateKeepsDcas DEF next, order
<1>11. vault' \in Nat /\ tokens' \in [Mints -> Nat]
  <2> DEFINE swept == Swept(after)
  <2>1. swept \in Nat
    BY <1>6
  <2>2. CASE order.side = "BUY"
    <3>1. vault' = vault + swept /\ tokens' = [tokens EXCEPT ![order.mint] = @ + out]
      BY <1>5, <2>2
    <3> HIDE DEF swept
    <3> QED
      BY <1>1, <1>2, <2>1, <3>1
  <2>3. CASE order.side # "BUY"
    <3>1. vault' = vault + out + swept /\ tokens' = tokens
      BY <1>5, <2>3
    <3> HIDE DEF swept
    <3> QED
      BY <1>2, <2>1, <3>1
  <2> QED
    BY <2>2, <2>3
<1> QED
  BY <1>2, <1>3, <1>10, <1>11, MovesKeepFund

\* cancel_dca_order.
LEMMA CancelKeepsDcas ==
    ASSUME FundInv, DcaInv, NEW i \in OrderIds, CancelDcaOrder(i)
    PROVE  DcaInv' /\ FundInv'
<1> DEFINE order == dca[i]
           ts == times[i]
           bought == [order EXCEPT !.status = "cancelled", !.sol = 0, !.ata = FALSE]
           sold == [order EXCEPT !.status = "cancelled", !.held = 0, !.ata = FALSE]
           next == IF order.side = "BUY" THEN bought ELSE sold
<1>1. order \in DcaOrder /\ ts \in Seq(Nat) /\ activeDca \in Nat /\ dca \in [OrderIds -> DcaOrder]
      /\ times \in [OrderIds -> Seq(Nat)]
  BY DEF DcaInv, DcaTypeOK, DcaOrder
<1>2. vault \in Nat /\ tokens \in [Mints -> Nat] /\ nextOrderId \in Nat
      /\ TokenAccountRent \in Nat /\ SolVaultRent \in Nat
  BY FundAccountsAssumption DEF FundInv, FundTypeOK
<1>3. /\ order.status = "open" /\ activeDca' = activeDca - 1 /\ times' = times
      /\ UNCHANGED <<now, whitelists, oracle>> /\ UNCHANGED nextOrderId
      /\ CancelBuyDca(i) \/ CancelSellDca(i)
  BY DEF CancelDcaOrder, DcaCancellable
<1>4. HoldsRest(order) /\ OnSchedule(order, ts)
  BY <1>3, EscrowByOrder DEF DcaInv, DcaScheduled
<1>a. order.sol \in Nat /\ order.held \in Nat /\ order.mint \in Mints
  BY <1>1 DEF DcaOrder
<1>5. dca' = [dca EXCEPT ![i] = next] /\ vault' \in Nat /\ tokens' \in [Mints -> Nat]
  <2>1. CASE CancelBuyDca(i)
    <3>1. order.side = "BUY" /\ vault' = vault + order.sol + TokenAccountRent /\ tokens' = tokens
      BY <2>1 DEF CancelBuyDca
    <3>2. dca' = [dca EXCEPT ![i] = bought]
      BY <2>1, <1>1 DEF CancelBuyDca
    <3>3. dca' = [dca EXCEPT ![i] = next]
      BY <3>1, <3>2
    <3> HIDE DEF next, order
    <3>4. vault' \in Nat /\ tokens' \in [Mints -> Nat]
      BY <3>1, <1>a, <1>2
    <3> QED
      BY <3>3, <3>4
  <2>2. CASE CancelSellDca(i)
    <3>1. /\ order.side = "SELL" /\ vault' = vault + TokenAccountRent
          /\ tokens' = [tokens EXCEPT ![order.mint] = @ + order.held]
      BY <2>2 DEF CancelSellDca
    <3>2. dca' = [dca EXCEPT ![i] = sold]
      BY <2>2, <1>1 DEF CancelSellDca
    <3>3. dca' = [dca EXCEPT ![i] = next]
      BY <3>1, <3>2
    <3> HIDE DEF next, order
    <3>4. vault' \in Nat /\ tokens' \in [Mints -> Nat]
      BY <3>1, <1>a, <1>2
    <3> QED
      BY <3>3, <3>4
  <2> QED
    BY <1>3, <2>1, <2>2
<1>6. /\ next \in DcaOrder /\ HoldsRest(next) /\ next.status = "cancelled"
      /\ next.nextExec = order.nextExec /\ next.interval = order.interval /\ next.slice = order.slice
      /\ next.remaining = order.remaining /\ next.total = order.total
  <2>1. CASE order.side = "BUY"
    <3>1. order.held = 0
      BY <1>3, <1>4, <2>1 DEF HoldsRest
    <3>2. next = bought
      BY <2>1
    <3>3. /\ bought \in DcaOrder /\ bought.status = "cancelled" /\ ~bought.ata /\ bought.sol = 0
          /\ bought.held = order.held
          /\ bought.nextExec = order.nextExec /\ bought.interval = order.interval
          /\ bought.slice = order.slice
          /\ bought.remaining = order.remaining /\ bought.total = order.total
      BY <1>1 DEF DcaOrder
    <3>4. HoldsRest(bought)
      BY <1>2, <3>1, <3>3 DEF HoldsRest
    <3> QED
      BY <3>2, <3>3, <3>4
  <2>2. CASE order.side # "BUY"
    <3>1. order.sol = SolVaultRent
      BY <1>3, <1>4, <2>2 DEF HoldsRest
    <3>2. next = sold
      BY <2>2
    <3>3. /\ sold \in DcaOrder /\ sold.status = "cancelled" /\ ~sold.ata /\ sold.sol = order.sol
          /\ sold.held = 0
          /\ sold.nextExec = order.nextExec /\ sold.interval = order.interval
          /\ sold.slice = order.slice
          /\ sold.remaining = order.remaining /\ sold.total = order.total
      BY <1>1 DEF DcaOrder
    <3>4. HoldsRest(sold)
      BY <1>2, <3>1, <3>3 DEF HoldsRest
    <3> QED
      BY <3>2, <3>3, <3>4
  <2> QED
    BY <2>1, <2>2
<1> HIDE DEF next
<1>7. OnSchedule(next, ts)
  BY <1>4, <1>6 DEF OnSchedule
<1>8. times' = [times EXCEPT ![i] = ts]
  BY <1>1, <1>3
<1>9. DcaInv'
  BY <1>1, <1>3, <1>5, <1>6, <1>7, <1>8, UpdateKeepsDcas
<1> QED
  BY <1>2, <1>3, <1>5, <1>9, MovesKeepFund

\* Whatever is done with DCA orders, in any order.
LEMMA DcaNextKeeps ==
    ASSUME FundInv, DcaInv, DcaNext
    PROVE  FundInv' /\ DcaInv' /\ nextOrderId' >= nextOrderId
<1>1. nextOrderId \in Nat
  BY DEF FundInv, FundTypeOK
<1>2. ASSUME NEW i \in OrderIds, NEW out \in Outs, ExecuteDcaOrder(i, out)
      PROVE  FundInv' /\ DcaInv' /\ nextOrderId' >= nextOrderId
  <2>1. FundInv' /\ DcaInv' /\ nextOrderId' = nextOrderId
    BY <1>2, ExecuteKeepsDcas DEF ExecuteDcaOrder
  <2> QED
    BY <1>1, <2>1
<1>3. ASSUME NEW i \in OrderIds, CancelDcaOrder(i)
      PROVE  FundInv' /\ DcaInv' /\ nextOrderId' >= nextOrderId
  <2>1. FundInv' /\ DcaInv' /\ nextOrderId' = nextOrderId
    BY <1>3, CancelKeepsDcas DEF CancelDcaOrder
  <2> QED
    BY <1>1, <2>1
<1>4. ASSUME NEW side \in {"BUY", "SELL"}, NEW m \in Mints, NEW total \in Amounts,
             NEW slice \in Amounts, NEW interval \in Intervals, NEW minOut \in MinOuts,
             NEW expiry \in Expiries,
             CreateDcaOrder(side, m, total, slice, interval, minOut, expiry)
      PROVE  FundInv' /\ DcaInv' /\ nextOrderId' >= nextOrderId
  <2>1. FundInv' /\ DcaInv' /\ nextOrderId' = nextOrderId + 1
    BY <1>4, CreateKeepsDcas
  <2> QED
    BY <1>1, <2>1
<1> QED
  BY <1>2, <1>3, <1>4, Zenon DEF DcaNext

\* The invariant of a fund with DCA orders.
LEMMA DcaFundInvariant == DcaSpec => [](FundInv /\ DcaInv)
<1>1. DcaFundInit => FundInv /\ DcaInv
  BY FundInitHolds, DcaInitHolds DEF DcaFundInit
<1>2. FundInv /\ DcaInv /\ [DcaFundNext]_DcaFundVars => (FundInv /\ DcaInv)'
  <2> SUFFICES ASSUME FundInv, DcaInv, [DcaFundNext]_DcaFundVars
               PROVE  FundInv' /\ DcaInv'
    OBVIOUS
  <2>0. nextOrderId \in Nat
    BY DEF FundInv, FundTypeOK
  <2>1. CASE FundNext /\ UNCHANGED dcaVars
    <3>1. FundInv' /\ nextOrderId' = nextOrderId
      BY <2>1, FundNextKeepsFund, FundNextKeepsIds
    <3> QED
      BY <2>0, <2>1, <3>1, OthersKeepDcas
  <2>2. CASE DcaNext
    BY <2>2, DcaNextKeeps
  <2>3. CASE UNCHANGED DcaFundVars
    <3>1. UNCHANGED <<fundVars, dcaVars>>
      BY <2>3 DEF DcaFundVars
    <3>2. UNCHANGED <<now, whitelists, oracle>> /\ UNCHANGED <<vault, tokens, nextOrderId>>
      BY <3>1 DEF fundVars, holdings
    <3>3. FundInv'
      BY <3>2, MovesKeepFund DEF FundInv, FundTypeOK
    <3> QED
      BY <2>0, <3>1, <3>2, <3>3, OthersKeepDcas
  <2> QED
    BY <2>1, <2>2, <2>3 DEF DcaFundNext
<1> QED
  BY <1>1, <1>2, PTL DEF DcaSpec

\* Every field of the fund's accounts and of its DCA orders keeps its type: no balance,
\* remaining amount or counter ever goes below zero.
THEOREM DcaFundTyped == DcaSpec => []DcaFundTypeOK
<1>1. FundInv /\ DcaInv => DcaFundTypeOK
  BY DEF FundInv, DcaInv, DcaFundTypeOK
<1> QED
  BY <1>1, DcaFundInvariant, PTL

\* fund_state.active_dca_count is the number of open DCA orders, at most MAX_ACTIVE_DCA.
THEOREM DcaCount == DcaSpec => []DcaCountExact
<1>1. FundInv /\ DcaInv => DcaCountExact
  BY DEF DcaInv
<1> QED
  BY <1>1, DcaFundInvariant, PTL

\* After any number of slices the vaults of an open DCA order hold exactly what remains,
\* those of a closed one nothing but the rent a cancelled SELL order leaves behind.
THEOREM DcaEscrow == DcaSpec => []DcaEscrowExact
<1>1. FundInv /\ DcaInv => DcaEscrowExact
  BY DEF DcaInv
<1> QED
  BY <1>1, DcaFundInvariant, PTL

\* The keeper never executes slice k before k intervals have passed, however late it was
\* with the slices before.
THEOREM DcaPaced == DcaSpec => []DcaPace
<1>1. FundInv /\ DcaInv => DcaPace
  <2> SUFFICES ASSUME DcaInv, NEW i \in OrderIds, NEW k \in 2 .. Len(times[i])
               PROVE  times[i][k] >= times[i][1] + (k - 1) * dca[i].interval
    BY DEF DcaPace
  <2>1. dca[i].status # "none"
    <3> SUFFICES ASSUME times[i] = <<>> PROVE FALSE
      BY DEF DcaInv, DcaScheduled
    <3> QED
      OBVIOUS
  <2> QED
    BY <2>1 DEF DcaInv, DcaScheduled, OnSchedule
<1> QED
  BY <1>1, DcaFundInvariant, PTL

\* What an order has swapped is so many full slices, but for the last one.
THEOREM DcaSlices == DcaSpec => []DcaSlicesExact
<1>1. FundInv /\ DcaInv => DcaSlicesExact
  BY DEF DcaInv, DcaScheduled, OnSchedule, DcaSlicesExact
<1> QED
  BY <1>1, DcaFundInvariant, PTL
=============================================================================
