--------------------------- MODULE TradingProofs ----------------------------
(***************************************************************************)
(* Proofs about a fund with both kinds of orders (TradingFund) and with    *)
(* investors (InvestedFund).                                               *)
(***************************************************************************)
EXTENDS InvestedFund, OrderProofs

-----------------------------------------------------------------------------
(* The invariant of a trading fund.                                        *)

TradingInv == FundInv /\ LimitInv /\ DcaInv

\* No instruction of the trading side breaks it.
LEMMA TradingNextKeeps == ASSUME TradingInv, TradingNext PROVE TradingInv'
<1>0. nextOrderId \in Nat
  BY DEF TradingInv, FundInv, FundTypeOK
<1>1. CASE FundNext /\ UNCHANGED <<limitVars, dcaVars>>
  <2>1. FundInv' /\ nextOrderId' = nextOrderId
    BY <1>1, FundNextKeepsFund, FundNextKeepsIds DEF TradingInv
  <2> QED
    BY <1>0, <1>1, <2>1, OthersKeepLimits, OthersKeepDcas DEF TradingInv
<1>2. CASE LimitNext /\ UNCHANGED dcaVars
  <2>1. FundInv' /\ LimitInv' /\ nextOrderId' >= nextOrderId
    BY <1>2, LimitNextKeeps DEF TradingInv
  <2>2. nextOrderId' \in Nat
    BY <2>1 DEF FundInv, FundTypeOK
  <2> QED
    BY <1>0, <1>2, <2>1, <2>2, OthersKeepDcas DEF TradingInv
<1>3. CASE DcaNext /\ UNCHANGED limitVars
  <2>1. FundInv' /\ DcaInv' /\ nextOrderId' >= nextOrderId
    BY <1>3, DcaNextKeeps DEF TradingInv
  <2>2. nextOrderId' \in Nat
    BY <2>1 DEF FundInv, FundTypeOK
  <2> QED
    BY <1>0, <1>3, <2>1, <2>2, OthersKeepLimits DEF TradingInv
<1> QED
  BY <1>1, <1>2, <1>3 DEF TradingNext

\* Nor does a step that leaves the trading side alone, whatever it does to the vault.
LEMMA OthersKeepTrading ==
    ASSUME TradingInv, UNCHANGED tradeVars, now' = now, vault' \in Nat
    PROVE  TradingInv'
<1>1. UNCHANGED <<tokens, whitelists, nextOrderId, oracle, limitVars, dcaVars>>
  BY DEF tradeVars
<1>2. nextOrderId \in Nat /\ tokens \in [Mints -> Nat]
  BY DEF TradingInv, FundInv, FundTypeOK
<1>3. FundInv'
  BY <1>1, <1>2, MovesKeepFund DEF TradingInv
<1> QED
  BY <1>1, <1>2, <1>3, OthersKeepLimits, OthersKeepDcas DEF TradingInv

\* The invariant holds for every run of the fund.
LEMMA TradingInvariant == TradingSpec => []TradingInv
<1>1. TradingInit => TradingInv
  BY FundInitHolds, LimitInitHolds, DcaInitHolds DEF TradingInit, TradingInv
<1>2. TradingInv /\ [TradingNext]_tradingVars => TradingInv'
  <2> SUFFICES ASSUME TradingInv, [TradingNext]_tradingVars PROVE TradingInv'
    OBVIOUS
  <2>1. CASE TradingNext
    BY <2>1, TradingNextKeeps
  <2>2. CASE UNCHANGED tradingVars
    <3>1. UNCHANGED tradeVars /\ now' = now /\ vault' = vault
      BY <2>2 DEF tradingVars, tradeVars, fundVars, holdings, limitVars, dcaVars
    <3>2. vault' \in Nat
      BY <3>1 DEF TradingInv, FundInv, FundTypeOK
    <3> QED
      BY <3>1, <3>2, OthersKeepTrading
  <2> QED
    BY <2>1, <2>2
<1> QED
  BY <1>1, <1>2, PTL DEF TradingSpec

\* What the invariant says of the books of both kinds of orders.
LEMMA BooksExact ==
    TradingInv => /\ CountWithinListed /\ LimitCountExact /\ DcaCountExact
                  /\ LimitEscrowExact /\ DcaEscrowExact
  BY DEF TradingInv, FundInv, LimitInv, DcaInv

\* A fund with both kinds of orders on one vault and one whitelist keeps its books: the
\* counters that compute_nav_lamports goes by count exactly the open orders and never
\* more listings than there are, and every open order's vaults hold exactly what is left to
\* swap.
THEOREM BooksExactWithAllOrders ==
    TradingSpec => [](/\ CountWithinListed /\ LimitCountExact /\ DcaCountExact
                      /\ LimitEscrowExact /\ DcaEscrowExact)
  BY TradingInvariant, BooksExact, PTL

-----------------------------------------------------------------------------
(* When the NAV stops being computable.                                    *)

\* As many distinct listed mints as there are listings are all of them.
LEMMA AllOfThem ==
    ASSUME TradingInv, NEW mints \in SUBSET Listed, Cardinality(mints) >= Cardinality(Listed)
    PROVE  mints = Listed
<1>1. IsFiniteSet(Listed)
  BY DEF TradingInv, FundInv
<1>2. Cardinality(mints) <= Cardinality(Listed) /\ Cardinality(mints) \in Nat
      /\ Cardinality(Listed) \in Nat /\ (Cardinality(mints) = Cardinality(Listed) => mints = Listed)
  BY <1>1, FS_Subset, FS_CardinalityType
<1> QED
  BY <1>2

\* An instruction lowers the count of the listings, leaves the whitelist as it is, or lists
\* one more mint and counts it.
LEMMA WhitelistSteps ==
    ASSUME TradingInv, TradingNext
    PROVE  \/ enabledCount' < enabledCount
           \/ listed' = listed /\ enabledCount' = enabledCount
           \/ /\ \E m \in Mints : m \notin Listed /\ Listed' = Listed \cup {m}
              /\ enabledCount' = enabledCount + 1
              /\ UNCHANGED <<nextOrderId, limitVars, dcaVars>>
<1>0. enabledCount \in Nat /\ listed \in [Mints -> Feeds \cup {NoFeed}]
  BY DEF TradingInv, FundInv, FundTypeOK
<1>1. CASE FundNext /\ UNCHANGED <<limitVars, dcaVars>>
  <2>1. ASSUME NEW m \in Mints, AddFund(m)
        PROVE  /\ m \notin Listed /\ Listed' = Listed \cup {m}
               /\ enabledCount' = enabledCount + 1 /\ nextOrderId' = nextOrderId
    BY <1>0, <2>1 DEF AddFund, Listed
  <2>2. ASSUME NEW m \in Mints, RemoveFund(m) PROVE enabledCount' < enabledCount
    BY <1>0, <2>2 DEF RemoveFund
  <2>3. CASE RemoveOther
    BY <1>0, <2>3 DEF RemoveOther
  <2> QED
    BY <1>1, <2>1, <2>2, <2>3
    DEF FundNext, AddGlobal, RemoveGlobal, Swap, PriceMoves, SolPriceMoves, Tick, whitelists
<1>2. CASE LimitNext /\ UNCHANGED dcaVars
  BY <1>2 DEF LimitNext, CreateLimitOrder, CreateBuyLimit, CreateSellLimit, RegisterLimit,
              ExecuteLimitOrder, ExecuteBuyLimit, ExecuteSellLimit, CancelLimitOrder, whitelists
<1>3. CASE DcaNext /\ UNCHANGED limitVars
  BY <1>3 DEF DcaNext, CreateDcaOrder, CreateBuyDca, CreateSellDca, RegisterDca,
              ExecuteDcaOrder, CancelDcaOrder, whitelists
<1> QED
  BY <1>1, <1>2, <1>3 DEF TradingNext

\* An order that is open after an instruction was open before it, on the same side of the
\* same mint, or is new, and its mint listed.
LEMMA OpenLimitsKnown ==
    ASSUME TradingInv, TradingNext, NEW i \in OrderIds, limit'[i].status = "open"
    PROVE  \/ /\ limit[i].status = "open"
              /\ limit'[i].mint = limit[i].mint /\ limit'[i].side = limit[i].side
           \/ OrderCreated /\ limit'[i].mint \in Listed'
<1>0. limit \in [OrderIds -> LimitOrder]
  BY DEF TradingInv, LimitInv, LimitTypeOK, LimitOrder
<1>1. CASE UNCHANGED limitVars
  BY <1>1 DEF limitVars
<1>2. ASSUME NEW order \in LimitOrder, RegisterLimit(order)
      PROVE  \/ limit'[i] = limit[i]
             \/ OrderCreated /\ limit'[i].mint \in Listed'
  <2>1. /\ limit' = [limit EXCEPT ![nextOrderId] = order] /\ listed' = listed
        /\ nextOrderId' = nextOrderId + 1
        /\ listed[order.mint] # NoFeed
    BY <1>2 DEF RegisterLimit, whitelists
  <2>2. order.mint \in Listed' /\ OrderCreated
    BY <2>1 DEF Listed, LimitOrder, OrderCreated, TradingInv, FundInv, FundTypeOK
  <2> QED
    BY <1>0, <2>1, <2>2
<1>3. ASSUME NEW side \in {"BUY", "SELL"}, NEW m \in Mints, NEW amount \in Amounts,
             NEW minOut \in MinOuts, NEW limitPrice \in LimitPrices, NEW unit \in PriceUnits,
             NEW expiry \in Expiries,
             CreateLimitOrder(side, m, amount, minOut, limitPrice, unit, expiry)
      PROVE  \E order \in LimitOrder : RegisterLimit(order)
  <2> DEFINE order == NewLimit(side, m, amount, minOut, limitPrice, unit, expiry)
  <2>1. order \in LimitOrder /\ order.amountIn \in Nat /\ SolVaultRent \in Nat
    BY FundAccountsAssumption, LimitOrdersAssumption
    DEF TradingInv, FundInv, FundTypeOK, NewLimit, LimitOrder
  <2>2. /\ [order EXCEPT !.sol = SolVaultRent + order.amountIn] \in LimitOrder
        /\ [order EXCEPT !.held = order.amountIn] \in LimitOrder
    BY <2>1 DEF LimitOrder
  <2> HIDE DEF order
  <2> QED
    BY <1>3, <2>2 DEF CreateLimitOrder, CreateBuyLimit, CreateSellLimit, order
<1>4. ASSUME NEW j \in OrderIds, NEW order, order.status # "open",
             limit' = [limit EXCEPT ![j] = order]
      PROVE  limit'[i] = limit[i]
  BY <1>0, <1>4
<1>5. ASSUME NEW j \in OrderIds, NEW out \in Outs, ExecuteLimitOrder(j, out)
      PROVE  \E order : order.status # "open" /\ limit' = [limit EXCEPT ![j] = order]
  <2>1. \A sol : ExecutedLimit(limit[j], sol).status # "open"
    BY <1>0 DEF ExecutedLimit, LimitOrder
  <2> QED
    BY <1>5, <2>1 DEF ExecuteLimitOrder, ExecuteBuyLimit, ExecuteSellLimit
<1>6. ASSUME NEW j \in OrderIds, CancelLimitOrder(j)
      PROVE  \E order : order.status # "open" /\ limit' = [limit EXCEPT ![j] = order]
  BY <1>6 DEF CancelLimitOrder, NoLimit
<1> QED
  BY <1>1, <1>2, <1>3, <1>4, <1>5, <1>6 DEF TradingNext, LimitNext

\* The same as OpenLimitsKnown for DCA orders.
LEMMA OpenDcasKnown ==
    ASSUME TradingInv, TradingNext, NEW i \in OrderIds, dca'[i].status = "open"
    PROVE  \/ /\ dca[i].status = "open"
              /\ dca'[i].mint = dca[i].mint /\ dca'[i].side = dca[i].side
           \/ OrderCreated /\ dca'[i].mint \in Listed'
<1>0. dca \in [OrderIds -> DcaOrder]
  BY DEF TradingInv, DcaInv, DcaTypeOK, DcaOrder
<1>1. CASE UNCHANGED dcaVars
  BY <1>1 DEF dcaVars
<1>2. ASSUME NEW order \in DcaOrder, RegisterDca(order)
      PROVE  \/ dca'[i] = dca[i]
             \/ OrderCreated /\ dca'[i].mint \in Listed'
  <2>1. /\ dca' = [dca EXCEPT ![nextOrderId] = order] /\ listed' = listed
        /\ nextOrderId' = nextOrderId + 1
        /\ listed[order.mint] # NoFeed
    BY <1>2 DEF RegisterDca, whitelists
  <2>2. order.mint \in Listed' /\ OrderCreated
    BY <2>1 DEF Listed, DcaOrder, OrderCreated, TradingInv, FundInv, FundTypeOK
  <2> QED
    BY <1>0, <2>1, <2>2
<1>3. ASSUME NEW side \in {"BUY", "SELL"}, NEW m \in Mints, NEW total \in Amounts,
             NEW slice \in Amounts, NEW interval \in Intervals, NEW minOut \in MinOuts,
             NEW expiry \in Expiries,
             CreateDcaOrder(side, m, total, slice, interval, minOut, expiry)
      PROVE  \E order \in DcaOrder : RegisterDca(order)
  <2> DEFINE order == NewDca(side, m, total, slice, interval, minOut, expiry)
  <2>1. order \in DcaOrder /\ order.total \in Nat /\ order.sol \in Nat
    <3>1. now + interval \in Nat
      BY DcaOrdersAssumption DEF TradingInv, FundInv, FundTypeOK
    <3> QED
      BY <3>1, FundAccountsAssumption, DcaOrdersAssumption
      DEF TradingInv, FundInv, FundTypeOK, NewDca, DcaOrder
  <2>2. /\ [order EXCEPT !.sol = @ + order.total] \in DcaOrder
        /\ [order EXCEPT !.held = order.total] \in DcaOrder
    BY <2>1 DEF DcaOrder
  <2> HIDE DEF order
  <2> QED
    BY <1>3, <2>2 DEF CreateDcaOrder, CreateBuyDca, CreateSellDca, order
<1>4. ASSUME NEW j \in OrderIds, NEW order, order.mint = dca[j].mint, order.side = dca[j].side,
             dca[j].status = "open", dca' = [dca EXCEPT ![j] = order]
      PROVE  dca'[i] = dca[i] \/ (dca[i].status = "open" /\ dca'[i].mint = dca[i].mint
                                  /\ dca'[i].side = dca[i].side)
  BY <1>0, <1>4
<1>5. ASSUME NEW j \in OrderIds, NEW out \in Outs, ExecuteDcaOrder(j, out)
      PROVE  \E order : /\ order.mint = dca[j].mint /\ order.side = dca[j].side
                        /\ dca[j].status = "open" /\ dca' = [dca EXCEPT ![j] = order]
  <2>1. PICK after : SliceTaken(dca[j], after) /\ dca' = [dca EXCEPT ![j] = Settled(after)]
    BY <1>5, ExecuteSettles DEF TradingInv
  <2>2. after \in DcaOrder /\ after.side = dca[j].side /\ after.mint = dca[j].mint
    BY <2>1 DEF SliceTaken
  <2>3. Settled(after).mint = after.mint /\ Settled(after).side = after.side
    BY <2>2 DEF Settled, DcaOrder
  <2>4. dca[j].status = "open"
    BY <1>5 DEF ExecuteDcaOrder, DcaExecutable
  <2> QED
    BY <2>1, <2>2, <2>3, <2>4
<1>6. ASSUME NEW j \in OrderIds, CancelDcaOrder(j)
      PROVE  dca'[i] = dca[i] \/ dca'[i].status = "cancelled"
  BY <1>0, <1>6 DEF CancelDcaOrder, CancelBuyDca, CancelSellDca, DcaOrder
<1>7. CASE DcaNext
  BY <1>2, <1>3, <1>4, <1>5, <1>6, <1>7 DEF DcaNext
<1> QED
  BY <1>1, <1>7 DEF TradingNext

\* Whatever limit and DCA orders do to the counters and to each other, a computable NAV is
\* lost only by a remove_token, or by an order that is created while an earlier remove_token
\* keeps the count below the listings.
THEOREM NavLostOnlyByRemovalHolds == TradingSpec => NavLostOnlyByRemoval
<1> DEFINE Excused == \/ enabledCount' < enabledCount
                      \/ OrderCreated /\ enabledCount < Cardinality(Listed)
           Kept == NavComputable /\ ~NavComputable' => Excused
<1>1. ASSUME TradingInv, TradingNext PROVE Kept
  <2> SUFFICES ASSUME NavComputable, ~Excused PROVE NavComputable'
    OBVIOUS
  <2>0. TradingInv'
    BY <1>1, TradingNextKeeps
  <2>1. PICK mints \in SUBSET Mints : Acceptable(mints)
    BY DEF NavComputable
  <2>2. /\ mints \in SUBSET Listed /\ Cardinality(mints) = enabledCount
        /\ SellMints \subseteq mints
        /\ enabledCount = 0 => activeLimit = 0 /\ activeDca = 0
    BY <2>1 DEF Acceptable
  <2>3. activeLimit' = Cardinality(OpenLimits') /\ activeDca' = Cardinality(OpenDcas')
    BY <2>0 DEF TradingInv, LimitInv, LimitCountExact, DcaInv, DcaCountExact
  <2>4. IsFiniteSet(Listed) /\ enabledCount \in Nat /\ Cardinality(Listed) \in Nat
    BY <1>1, FS_CardinalityType DEF TradingInv, FundInv, FundTypeOK
  <2>5. CASE listed' = listed /\ enabledCount' = enabledCount
    <3>0. Listed' = Listed
      BY <2>5 DEF Listed
    <3>1. OrderCreated => mints = Listed
      <4> SUFFICES ASSUME OrderCreated PROVE mints = Listed
        OBVIOUS
      <4>1. Cardinality(mints) >= Cardinality(Listed)
        BY <2>2, <2>4
      <4> QED
        BY <1>1, <2>2, <4>1, AllOfThem
    <3>2. SellMints' \subseteq mints
      <4>1. ASSUME NEW i \in OrderIds, limit'[i].status = "open", limit'[i].side = "SELL"
            PROVE  limit'[i].mint \in mints
        <5>1. CASE /\ limit[i].status = "open"
                   /\ limit'[i].mint = limit[i].mint /\ limit'[i].side = limit[i].side
          <6>1. limit[i].mint \in SellMints
            BY <4>1, <5>1 DEF SellMints, OpenLimits
          <6> QED
            BY <2>2, <5>1, <6>1
        <5> QED
          BY <1>1, <3>0, <3>1, <4>1, <5>1, OpenLimitsKnown
      <4>2. ASSUME NEW i \in OrderIds, dca'[i].status = "open", dca'[i].side = "SELL"
            PROVE  dca'[i].mint \in mints
        <5>1. CASE /\ dca[i].status = "open"
                   /\ dca'[i].mint = dca[i].mint /\ dca'[i].side = dca[i].side
          <6>1. dca[i].mint \in SellMints
            BY <4>2, <5>1 DEF SellMints, OpenDcas
          <6> QED
            BY <2>2, <5>1, <6>1
        <5> QED
          BY <1>1, <3>0, <3>1, <4>2, <5>1, OpenDcasKnown
      <4> QED
        BY <4>1, <4>2 DEF SellMints, OpenLimits, OpenDcas
    <3>3. ASSUME enabledCount' = 0 PROVE activeLimit' = 0 /\ activeDca' = 0
      <4>1. activeLimit = 0 /\ activeDca = 0 /\ enabledCount = 0
        BY <2>2, <2>5, <3>3
      <4>2. OpenLimits = {} /\ OpenDcas = {}
        <5>1. Cardinality(OpenLimits) = 0 /\ Cardinality(OpenDcas) = 0
          BY <1>1, <4>1 DEF TradingInv, LimitInv, LimitCountExact, DcaInv, DcaCountExact
        <5>2. IsFiniteSet(OpenLimits) /\ IsFiniteSet(OpenDcas)
          BY OpenLimitsFinite, OpenDcasFinite
        <5> QED
          BY <5>1, <5>2, FS_EmptySet
      <4>3. ~OrderCreated \/ Listed' = {}
        <5> SUFFICES ASSUME OrderCreated PROVE Listed' = {}
          OBVIOUS
        <5>1. Cardinality(Listed) = 0
          BY <2>4, <4>1
        <5> QED
          BY <2>4, <3>0, <5>1, FS_EmptySet
      <4>4. \A i \in OrderIds : limit'[i].status # "open" /\ dca'[i].status # "open"
        BY <1>1, <4>2, <4>3, OpenLimitsKnown, OpenDcasKnown DEF OpenLimits, OpenDcas
      <4>5. OpenLimits' = {} /\ OpenDcas' = {}
        BY <4>4 DEF OpenLimits, OpenDcas
      <4> QED
        BY <2>3, <4>5, FS_EmptySet
    <3>4. Acceptable(mints)'
      BY <2>2, <2>3, <2>5, <3>0, <3>2, <3>3 DEF Acceptable
    <3> QED
      BY <3>4 DEF NavComputable
  <2>6. ASSUME NEW m \in Mints, m \notin Listed, Listed' = Listed \cup {m},
               enabledCount' = enabledCount + 1, UNCHANGED <<nextOrderId, limitVars, dcaVars>>
        PROVE  NavComputable'
    <3>1. SellMints' = SellMints
      BY <2>6 DEF SellMints, OpenLimits, OpenDcas, limitVars, dcaVars
    <3>2. Cardinality(mints \cup {m}) = enabledCount'
      <4>1. IsFiniteSet(mints) /\ m \notin mints
        BY <2>2, <2>4, <2>6, FS_Subset
      <4>2. Cardinality(mints \cup {m}) = Cardinality(mints) + 1
        BY <4>1, FS_AddElement
      <4> QED
        BY <2>2, <2>6, <4>2
    <3>3. enabledCount' # 0
      BY <2>4, <2>6
    <3>4. Acceptable(mints \cup {m})'
      BY <2>2, <2>3, <2>6, <3>1, <3>2, <3>3 DEF Acceptable
    <3> QED
      BY <3>4 DEF NavComputable
  <2> QED
    BY <1>1, <2>5, <2>6, WhitelistSteps
<1>2. TradingInv /\ [TradingNext]_tradingVars => [Kept]_tradingVars
  BY <1>1
<1> QED
  BY <1>2, TradingInvariant, PTL DEF TradingSpec, NavLostOnlyByRemoval

-----------------------------------------------------------------------------
(* The value of the fund, summand by summand.                              *)

\* What the tokens of all listings are worth.
TokenValues == ValuesOf(Listed)

\* While these stay, amounts keep their value.
PricesKept == UNCHANGED <<listed, price, solPrice>>

\* What a well-formed order adds to the NAV is a whole number of lamports.
LEMMA EscrowNat ==
    ASSUME TradingInv, NEW order, order.sol \in Nat, order.held \in Nat,
           order.side # "BUY" => order.mint \in Listed
    PROVE  EscrowValue(order) \in Nat
  BY ValueNat DEF EscrowValue, TradingInv

\* The summands of a computable NAV are natural numbers, and there are finitely many.
LEMMA SummandsNat ==
    ASSUME TradingInv, SellMints \subseteq Listed
    PROVE  /\ IsFiniteSet(Listed) /\ IsFiniteSet(OpenLimits) /\ IsFiniteSet(OpenDcas)
           /\ TokenValues \in [Listed -> Nat]
           /\ LimitValues \in [OpenLimits -> Nat]
           /\ DcaValues \in [OpenDcas -> Nat]
           /\ vault \in Nat
<1>1. \A m \in Listed : LamportsFor(tokens[m], listed[m]) \in Nat
  BY ValueNat DEF Listed, TradingInv, FundInv, FundTypeOK
<1>2. ASSUME NEW i \in OpenLimits PROVE EscrowValue(limit[i]) \in Nat
  <2>1. limit[i] \in LimitOrder
    BY DEF OpenLimits, TradingInv, LimitInv, LimitTypeOK, LimitOrder
  <2>2. limit[i].side # "BUY" => limit[i].mint \in SellMints
    BY <2>1 DEF OpenLimits, SellMints, LimitOrder
  <2> QED
    BY <2>1, <2>2, EscrowNat DEF LimitOrder
<1>3. ASSUME NEW i \in OpenDcas PROVE EscrowValue(dca[i]) \in Nat
  <2>1. dca[i] \in DcaOrder
    BY DEF OpenDcas, TradingInv, DcaInv, DcaTypeOK, DcaOrder
  <2>2. dca[i].side # "BUY" => dca[i].mint \in SellMints
    BY <2>1 DEF OpenDcas, SellMints, DcaOrder
  <2> QED
    BY <2>1, <2>2, EscrowNat DEF DcaOrder
<1> QED
  BY <1>1, <1>2, <1>3, OpenLimitsFinite, OpenDcasFinite
  DEF TokenValues, ValuesOf, LimitValues, DcaValues, TradingInv, FundInv, FundTypeOK

\* Their sums are natural numbers.
LEMMA SumsNat ==
    ASSUME TradingInv, SellMints \subseteq Listed
    PROVE  /\ SumFunction(TokenValues) \in Nat
           /\ SumFunction(LimitValues) \in Nat
           /\ SumFunction(DcaValues) \in Nat
           /\ vault \in Nat /\ Nav \in Nat
<1>1. SumFunction(TokenValues) \in Nat /\ SumFunction(LimitValues) \in Nat
      /\ SumFunction(DcaValues) \in Nat /\ vault \in Nat
  BY SummandsNat, SumFunctionNat
<1> QED
  BY <1>1 DEF Nav, NavOf, TokenValues

\* Another balance of one token.
LEMMA TokenBalanceSet ==
    ASSUME TradingInv, TradingInv', PricesKept, NEW m \in Listed, NEW v \in Nat,
           tokens' = [tokens EXCEPT ![m] = v]
    PROVE  SumFunction(TokenValues') = SumFunction(TokenValues)
              + LamportsFor(v, listed[m]) - LamportsFor(tokens[m], listed[m])
<1> DEFINE S == Listed
           f == TokenValues
           g == TokenValues'
<1>1. Listed' = Listed /\ IsFiniteSet(Listed)
  BY DEF PricesKept, Listed, TradingInv, FundInv
<1>2. f = [x \in S |-> LamportsFor(tokens[x], listed[x])]
  BY DEF TokenValues, ValuesOf
<1>3. \A x \in S : tokens[x] \in Nat /\ tokens'[x] \in Nat /\ x \in Mints
  BY DEF TradingInv, FundInv, FundTypeOK, Listed
<1>4. g = [x \in S |-> LamportsFor(tokens'[x], listed[x])]
  BY <1>1 DEF TokenValues, ValuesOf, PricesKept, LamportsFor
<1>5. f \in [S -> Nat] /\ g \in [S -> Nat]
  BY <1>2, <1>3, <1>4, ValueNat DEF TradingInv
<1>6. tokens'[m] = v /\ \A x \in S \ {m} : tokens'[x] = tokens[x]
  BY <1>3 DEF TradingInv, FundInv, FundTypeOK
<1>7. g[m] = LamportsFor(v, listed[m]) /\ f[m] = LamportsFor(tokens[m], listed[m])
  BY <1>2, <1>4, <1>6
<1>8. \A x \in S \ {m} : g[x] = f[x]
  BY <1>2, <1>4, <1>6
<1> HIDE DEF f, g
<1>9. SumFunction(g) = SumFunction(f) + g[m] - f[m]
  BY <1>1, <1>5, <1>8, SumChanges
<1> QED
  BY <1>7, <1>9 DEF f, g

\* A limit order that opens adds its value.
LEMMA LimitSumOpens ==
    ASSUME TradingInv, SellMints \subseteq Listed, PricesKept, NEW n \in OrderIds,
           limit[n].status # "open", NEW order, order.status = "open",
           EscrowValue(order) \in Nat, limit' = [limit EXCEPT ![n] = order]
    PROVE  SumFunction(LimitValues') = SumFunction(LimitValues) + EscrowValue(order)
<1> DEFINE S == OpenLimits
           T == OpenLimits'
           f == LimitValues
           g == LimitValues'
<1>0. limit'[n] = order /\ \A i \in OrderIds \ {n} : limit'[i] = limit[i]
  BY DEF TradingInv, LimitInv, LimitTypeOK
<1>1. T = S \cup {n} /\ n \notin S /\ IsFiniteSet(S)
  BY <1>0, OpenLimitsFinite DEF OpenLimits
<1>2. f = [i \in S |-> EscrowValue(limit[i])] /\ f \in [S -> Nat]
  BY SummandsNat DEF LimitValues
<1>3. g = [i \in T |-> EscrowValue(limit'[i])]
  BY DEF LimitValues, EscrowValue, LamportsFor, PricesKept
<1>4. g[n] = EscrowValue(order) /\ \A i \in S : g[i] = f[i]
  <2>1. \A i \in S : i \in T /\ limit'[i] = limit[i]
    BY <1>0, <1>1 DEF OpenLimits
  <2> QED
    BY <1>0, <1>1, <1>2, <1>3, <2>1
<1>5. g \in [T -> Nat]
  BY <1>1, <1>2, <1>3, <1>4
<1> HIDE DEF S, T, f, g
<1>6. SumFunction(g) = SumFunction(f) + g[n]
  BY <1>1, <1>2, <1>4, <1>5, SumGrows
<1> QED
  BY <1>4, <1>6 DEF f, g

\* A limit order that closes takes its value along.
LEMMA LimitSumCloses ==
    ASSUME TradingInv, SellMints \subseteq Listed, PricesKept, NEW n \in OrderIds,
           limit[n].status = "open", NEW order, order.status # "open",
           limit' = [limit EXCEPT ![n] = order]
    PROVE  /\ SumFunction(LimitValues) = SumFunction(LimitValues') + EscrowValue(limit[n])
           /\ SumFunction(LimitValues') \in Nat
<1> DEFINE S == OpenLimits'
           T == OpenLimits
           f == LimitValues'
           g == LimitValues
<1>0. limit'[n] = order /\ \A i \in OrderIds \ {n} : limit'[i] = limit[i]
  BY DEF TradingInv, LimitInv, LimitTypeOK
<1>1. T = S \cup {n} /\ n \notin S /\ S \subseteq OrderIds
  BY <1>0 DEF OpenLimits
<1>2. IsFiniteSet(S)
  BY <1>1, FundAccountsAssumption, FS_Subset
<1>3. g = [i \in T |-> EscrowValue(limit[i])] /\ g \in [T -> Nat]
  BY SummandsNat DEF LimitValues
<1>4. f = [i \in S |-> EscrowValue(limit'[i])]
  BY DEF LimitValues, EscrowValue, LamportsFor, PricesKept
<1>5. g[n] = EscrowValue(limit[n]) /\ \A i \in S : i \in T /\ g[i] = f[i]
  <2>1. \A i \in S : i \in T /\ limit'[i] = limit[i]
    BY <1>0, <1>1
  <2> QED
    BY <1>1, <1>3, <1>4, <2>1
<1>6. f \in [S -> Nat]
  BY <1>3, <1>4, <1>5
<1> HIDE DEF S, T, f, g
<1>7. SumFunction(g) = SumFunction(f) + g[n]
  BY <1>1, <1>2, <1>3, <1>5, <1>6, SumGrows
<1>8. SumFunction(f) \in Nat
  BY <1>2, <1>6, SumFunctionNat
<1> QED
  BY <1>5, <1>7, <1>8 DEF f, g

\* A DCA order that opens adds its value.
LEMMA DcaSumOpens ==
    ASSUME TradingInv, SellMints \subseteq Listed, PricesKept, NEW n \in OrderIds,
           dca[n].status # "open", NEW order, order.status = "open",
           EscrowValue(order) \in Nat, dca' = [dca EXCEPT ![n] = order]
    PROVE  SumFunction(DcaValues') = SumFunction(DcaValues) + EscrowValue(order)
<1> DEFINE S == OpenDcas
           T == OpenDcas'
           f == DcaValues
           g == DcaValues'
<1>0. dca'[n] = order /\ \A i \in OrderIds \ {n} : dca'[i] = dca[i]
  BY DEF TradingInv, DcaInv, DcaTypeOK
<1>1. T = S \cup {n} /\ n \notin S /\ IsFiniteSet(S)
  BY <1>0, OpenDcasFinite DEF OpenDcas
<1>2. f = [i \in S |-> EscrowValue(dca[i])] /\ f \in [S -> Nat]
  BY SummandsNat DEF DcaValues
<1>3. g = [i \in T |-> EscrowValue(dca'[i])]
  BY DEF DcaValues, EscrowValue, LamportsFor, PricesKept
<1>4. g[n] = EscrowValue(order) /\ \A i \in S : g[i] = f[i]
  <2>1. \A i \in S : i \in T /\ dca'[i] = dca[i]
    BY <1>0, <1>1 DEF OpenDcas
  <2> QED
    BY <1>0, <1>1, <1>2, <1>3, <2>1
<1>5. g \in [T -> Nat]
  BY <1>1, <1>2, <1>3, <1>4
<1> HIDE DEF S, T, f, g
<1>6. SumFunction(g) = SumFunction(f) + g[n]
  BY <1>1, <1>2, <1>4, <1>5, SumGrows
<1> QED
  BY <1>4, <1>6 DEF f, g

\* A DCA order that closes takes its value along.
LEMMA DcaSumCloses ==
    ASSUME TradingInv, SellMints \subseteq Listed, PricesKept, NEW n \in OrderIds,
           dca[n].status = "open", NEW order, order.status # "open",
           dca' = [dca EXCEPT ![n] = order]
    PROVE  /\ SumFunction(DcaValues) = SumFunction(DcaValues') + EscrowValue(dca[n])
           /\ SumFunction(DcaValues') \in Nat
<1> DEFINE S == OpenDcas'
           T == OpenDcas
           f == DcaValues'
           g == DcaValues
<1>0. dca'[n] = order /\ \A i \in OrderIds \ {n} : dca'[i] = dca[i]
  BY DEF TradingInv, DcaInv, DcaTypeOK
<1>1. T = S \cup {n} /\ n \notin S /\ S \subseteq OrderIds
  BY <1>0 DEF OpenDcas
<1>2. IsFiniteSet(S)
  BY <1>1, FundAccountsAssumption, FS_Subset
<1>3. g = [i \in T |-> EscrowValue(dca[i])] /\ g \in [T -> Nat]
  BY SummandsNat DEF DcaValues
<1>4. f = [i \in S |-> EscrowValue(dca'[i])]
  BY DEF DcaValues, EscrowValue, LamportsFor, PricesKept
<1>5. g[n] = EscrowValue(dca[n]) /\ \A i \in S : i \in T /\ g[i] = f[i]
  <2>1. \A i \in S : i \in T /\ dca'[i] = dca[i]
    BY <1>0, <1>1
  <2> QED
    BY <1>1, <1>3, <1>4, <2>1
<1>6. f \in [S -> Nat]
  BY <1>3, <1>4, <1>5
<1> HIDE DEF S, T, f, g
<1>7. SumFunction(g) = SumFunction(f) + g[n]
  BY <1>1, <1>2, <1>3, <1>5, <1>6, SumGrows
<1>8. SumFunction(f) \in Nat
  BY <1>2, <1>6, SumFunctionNat
<1> QED
  BY <1>5, <1>7, <1>8 DEF f, g

\* A DCA order that stays open counts with what it holds then.
LEMMA DcaSumChanges ==
    ASSUME TradingInv, SellMints \subseteq Listed, PricesKept, NEW n \in OrderIds,
           dca[n].status = "open", NEW order, order.status = "open",
           EscrowValue(order) \in Nat, dca' = [dca EXCEPT ![n] = order]
    PROVE  SumFunction(DcaValues') = SumFunction(DcaValues) + EscrowValue(order) - EscrowValue(dca[n])
<1> DEFINE S == OpenDcas
           f == DcaValues
           g == DcaValues'
<1>0. dca'[n] = order /\ \A i \in OrderIds \ {n} : dca'[i] = dca[i]
  BY DEF TradingInv, DcaInv, DcaTypeOK
<1>1. OpenDcas' = S /\ n \in S /\ IsFiniteSet(S)
  BY <1>0, OpenDcasFinite DEF OpenDcas
<1>2. f = [i \in S |-> EscrowValue(dca[i])] /\ f \in [S -> Nat]
  BY SummandsNat DEF DcaValues
<1>3. g = [i \in S |-> EscrowValue(dca'[i])]
  BY <1>1 DEF DcaValues, EscrowValue, LamportsFor, PricesKept
<1>4. g[n] = EscrowValue(order) /\ f[n] = EscrowValue(dca[n]) /\ \A i \in S \ {n} : g[i] = f[i]
  <2>1. \A i \in S \ {n} : dca'[i] = dca[i]
    BY <1>0 DEF OpenDcas
  <2> QED
    BY <1>0, <1>1, <1>2, <1>3, <2>1
<1>5. g \in [S -> Nat]
  BY <1>1, <1>2, <1>3, <1>4
<1> HIDE DEF S, f, g
<1>6. SumFunction(g) = SumFunction(f) + g[n] - f[n]
  BY <1>1, <1>2, <1>4, <1>5, SumChanges
<1> QED
  BY <1>4, <1>6 DEF f, g

\* The value of one order is part of the sum.
LEMMA OrderInSum ==
    ASSUME TradingInv, SellMints \subseteq Listed, NEW i \in OrderIds, dca[i].status = "open"
    PROVE  EscrowValue(dca[i]) <= SumFunction(DcaValues)
<1> DEFINE f == DcaValues
<1>1. i \in OpenDcas /\ f = [j \in OpenDcas |-> EscrowValue(dca[j])]
  BY DEF OpenDcas, DcaValues
<1>2. f \in [OpenDcas -> Nat] /\ IsFiniteSet(OpenDcas)
  BY SummandsNat
<1>3. f[i] = EscrowValue(dca[i])
  BY <1>1
<1> HIDE DEF f
<1> QED
  BY <1>1, <1>2, <1>3, SumCoversTerm DEF f

\* Sums over what a step leaves alone.
LEMMA SumsKept ==
    ASSUME PricesKept
    PROVE  /\ tokens' = tokens => TokenValues' = TokenValues
           /\ limit' = limit => LimitValues' = LimitValues
           /\ dca' = dca => DcaValues' = DcaValues
  BY DEF PricesKept, TokenValues, ValuesOf, LimitValues, DcaValues, EscrowValue, LamportsFor, Listed,
         OpenLimits, OpenDcas

-----------------------------------------------------------------------------
(* Orders and the NAV.                                                     *)

\* What a new limit order is worth when it is registered.
LEMMA NewLimitCounts ==
    ASSUME TradingInv, SellMints \subseteq Listed, NEW order \in LimitOrder,
           RegisterLimit(order), order.status = "open", UNCHANGED dcaVars
    PROVE  /\ order.mint \in Listed /\ PricesKept
           /\ EscrowValue(order) \in Nat
           /\ SumFunction(LimitValues') = SumFunction(LimitValues) + EscrowValue(order)
           /\ DcaValues' = DcaValues
<1>1. /\ limit' = [limit EXCEPT ![nextOrderId] = order] /\ nextOrderId \in OrderIds
      /\ listed[order.mint] # NoFeed /\ PricesKept
  BY DEF RegisterLimit, whitelists, oracle, PricesKept
<1>2. order.mint \in Listed /\ order.sol \in Nat /\ order.held \in Nat
  BY <1>1 DEF Listed, LimitOrder
<1>3. EscrowValue(order) \in Nat
  BY <1>2, EscrowNat
<1>4. limit[nextOrderId].status = "none" /\ nextOrderId \in Nat
  BY <1>1 DEF TradingInv, FundInv, FundTypeOK, LimitInv, LimitIdsFresh
<1>5. limit[nextOrderId].status # "open"
  BY <1>4
<1> QED
  BY <1>1, <1>2, <1>3, <1>5, LimitSumOpens, SumsKept DEF dcaVars

\* Creating a limit order costs nobody more than the lamport of a rounding.
LEMMA CreateLimitKeepsNav ==
    ASSUME TradingInv, TradingInv', SellMints \subseteq Listed,
           NEW side \in {"BUY", "SELL"}, NEW m \in Mints, NEW amount \in Amounts,
           NEW minOut \in MinOuts, NEW limitPrice \in LimitPrices, NEW unit \in PriceUnits,
           NEW expiry \in Expiries,
           CreateLimitOrder(side, m, amount, minOut, limitPrice, unit, expiry),
           UNCHANGED dcaVars
    PROVE  Nav' >= Nav - 1
<1> DEFINE order == NewLimit(side, m, amount, minOut, limitPrice, unit, expiry)
           buy == [order EXCEPT !.sol = SolVaultRent + order.amountIn]
           sell == [order EXCEPT !.held = order.amountIn]
           T == SumFunction(TokenValues)
           L == SumFunction(LimitValues)
           D == SumFunction(DcaValues)
<1>1. amount \in Nat /\ SolVaultRent \in Nat
  BY FundAccountsAssumption
<1>2. /\ order \in LimitOrder /\ order.amountIn = amount /\ order.mint = m
      /\ order.status = "open" /\ order.sol = 0 /\ order.held = 0 /\ order.side = side
  BY FundAccountsAssumption, LimitOrdersAssumption
  DEF TradingInv, FundInv, FundTypeOK, NewLimit, LimitOrder
<1>3. T \in Nat /\ L \in Nat /\ D \in Nat /\ vault \in Nat /\ Nav = vault + T + L + D
  BY SumsNat DEF Nav, NavOf, TokenValues
<1>4. Nav' = vault' + T' + L' + D'
  BY DEF Nav, NavOf, TokenValues
<1> HIDE DEF T, L, D
<1>5. CASE side = "BUY" /\ CreateBuyLimit(order)
  <2>1. /\ buy \in LimitOrder /\ buy.status = "open" /\ buy.side = "BUY"
        /\ buy.sol = SolVaultRent + amount
    BY <1>1, <1>2, <1>5 DEF LimitOrder
  <2>2. RegisterLimit(buy) /\ vault' = vault - amount /\ tokens' = tokens
    BY <1>2, <1>5 DEF CreateBuyLimit
  <2>3. PricesKept /\ L' = L + EscrowValue(buy) /\ DcaValues' = DcaValues
    BY <2>1, <2>2, NewLimitCounts DEF L
  <2>4. T' = T /\ D' = D
    BY <2>2, <2>3, SumsKept DEF T, D
  <2>5. EscrowValue(buy) = SolVaultRent + amount
    BY <2>1 DEF EscrowValue
  <2> HIDE DEF buy
  <2> QED
    BY <1>1, <1>3, <1>4, <2>2, <2>3, <2>4, <2>5
<1>6. CASE side = "SELL" /\ CreateSellLimit(order)
  <2>1. /\ sell \in LimitOrder /\ sell.status = "open" /\ sell.side = "SELL"
        /\ sell.held = amount /\ sell.mint = m
    BY <1>1, <1>2, <1>6 DEF LimitOrder
  <2>2. /\ RegisterLimit(sell) /\ vault' = vault /\ tokens[m] >= amount
        /\ tokens' = [tokens EXCEPT ![m] = @ - amount]
    BY <1>2, <1>6 DEF CreateSellLimit
  <2>3. /\ PricesKept /\ L' = L + EscrowValue(sell) /\ DcaValues' = DcaValues
        /\ m \in Listed
    BY <2>1, <2>2, NewLimitCounts DEF L
  <2> DEFINE rest == tokens[m] - amount
  <2>4. rest \in Nat /\ tokens[m] = rest + amount
    BY <1>1, <2>2 DEF TradingInv, FundInv, FundTypeOK
  <2>5. tokens' = [tokens EXCEPT ![m] = rest]
    BY <2>2
  <2> HIDE DEF rest
  <2>6. T' = T + LamportsFor(rest, listed[m]) - LamportsFor(rest + amount, listed[m])
    BY <2>3, <2>4, <2>5, TokenBalanceSet DEF T
  <2>7. D' = D
    BY <2>3 DEF D
  <2>8. EscrowValue(sell) = LamportsFor(amount, listed[m])
    BY <2>1 DEF EscrowValue
  <2>9. /\ LamportsFor(rest, listed[m]) \in Nat /\ LamportsFor(amount, listed[m]) \in Nat
        /\ LamportsFor(rest + amount, listed[m]) \in Nat
        /\ LamportsFor(rest + amount, listed[m])
              <= LamportsFor(rest, listed[m]) + LamportsFor(amount, listed[m]) + 1
    BY <1>1, <2>3, <2>4, ValueSplits DEF TradingInv
  <2> HIDE DEF sell
  <2> QED
    BY <1>3, <1>4, <2>2, <2>3, <2>6, <2>7, <2>8, <2>9
<1> QED
  BY <1>5, <1>6 DEF CreateLimitOrder

\* What a new DCA order is worth when it is registered.
LEMMA NewDcaCounts ==
    ASSUME TradingInv, SellMints \subseteq Listed, NEW order \in DcaOrder,
           RegisterDca(order), order.status = "open", UNCHANGED limitVars
    PROVE  /\ order.mint \in Listed /\ PricesKept
           /\ EscrowValue(order) \in Nat
           /\ SumFunction(DcaValues') = SumFunction(DcaValues) + EscrowValue(order)
           /\ LimitValues' = LimitValues
<1>1. /\ dca' = [dca EXCEPT ![nextOrderId] = order] /\ nextOrderId \in OrderIds
      /\ listed[order.mint] # NoFeed /\ PricesKept
  BY DEF RegisterDca, whitelists, oracle, PricesKept
<1>2. order.mint \in Listed /\ order.sol \in Nat /\ order.held \in Nat
  BY <1>1 DEF Listed, DcaOrder
<1>3. EscrowValue(order) \in Nat
  BY <1>2, EscrowNat
<1>4. dca[nextOrderId].status = "none" /\ nextOrderId \in Nat
  BY <1>1 DEF TradingInv, FundInv, FundTypeOK, DcaInv, DcaIdsFresh
<1>5. dca[nextOrderId].status # "open"
  BY <1>4
<1> QED
  BY <1>1, <1>2, <1>3, <1>5, DcaSumOpens, SumsKept DEF limitVars

\* Creating a DCA order costs nobody more than the lamport of a rounding.
LEMMA CreateDcaKeepsNav ==
    ASSUME TradingInv, TradingInv', SellMints \subseteq Listed,
           NEW side \in {"BUY", "SELL"}, NEW m \in Mints, NEW total \in Amounts,
           NEW slice \in Amounts, NEW interval \in Intervals, NEW minOut \in MinOuts,
           NEW expiry \in Expiries,
           CreateDcaOrder(side, m, total, slice, interval, minOut, expiry),
           UNCHANGED limitVars
    PROVE  Nav' >= Nav - 1
<1> DEFINE order == NewDca(side, m, total, slice, interval, minOut, expiry)
           buy == [order EXCEPT !.sol = @ + order.total]
           sell == [order EXCEPT !.held = order.total]
           T == SumFunction(TokenValues)
           L == SumFunction(LimitValues)
           D == SumFunction(DcaValues)
<1>1. total \in Nat /\ SolVaultRent \in Nat /\ now + interval \in Nat
  BY FundAccountsAssumption, DcaOrdersAssumption DEF TradingInv, FundInv, FundTypeOK
<1>2. /\ order \in DcaOrder /\ order.total = total /\ order.mint = m
      /\ order.status = "open" /\ order.sol = SolVaultRent /\ order.held = 0 /\ order.side = side
  BY <1>1, FundAccountsAssumption, DcaOrdersAssumption
  DEF TradingInv, FundInv, FundTypeOK, NewDca, DcaOrder
<1>3. T \in Nat /\ L \in Nat /\ D \in Nat /\ vault \in Nat /\ Nav = vault + T + L + D
  BY SumsNat DEF Nav, NavOf, TokenValues
<1>4. Nav' = vault' + T' + L' + D'
  BY DEF Nav, NavOf, TokenValues
<1> HIDE DEF T, L, D, order
<1>5. CASE side = "BUY" /\ CreateBuyDca(order)
  <2>1. /\ buy \in DcaOrder /\ buy.status = "open" /\ buy.side = "BUY"
        /\ buy.sol = SolVaultRent + total
    BY <1>1, <1>2, <1>5 DEF DcaOrder
  <2>2. RegisterDca(buy) /\ vault' = vault - total /\ tokens' = tokens
    BY <1>2, <1>5 DEF CreateBuyDca
  <2>3. PricesKept /\ D' = D + EscrowValue(buy) /\ LimitValues' = LimitValues
    BY <2>1, <2>2, NewDcaCounts DEF D
  <2>4. T' = T /\ L' = L
    BY <2>2, <2>3, SumsKept DEF T, L
  <2>5. EscrowValue(buy) = SolVaultRent + total
    BY <2>1 DEF EscrowValue
  <2> HIDE DEF buy
  <2> QED
    BY <1>1, <1>3, <1>4, <2>2, <2>3, <2>4, <2>5
<1>6. CASE side = "SELL" /\ CreateSellDca(order)
  <2>1. /\ sell \in DcaOrder /\ sell.status = "open" /\ sell.side = "SELL"
        /\ sell.held = total /\ sell.mint = m
    BY <1>1, <1>2, <1>6 DEF DcaOrder
  <2>2. /\ RegisterDca(sell) /\ vault' = vault /\ tokens[m] >= total
        /\ tokens' = [tokens EXCEPT ![m] = @ - total]
    BY <1>2, <1>6 DEF CreateSellDca
  <2>3. /\ PricesKept /\ D' = D + EscrowValue(sell) /\ LimitValues' = LimitValues
        /\ m \in Listed
    BY <2>1, <2>2, NewDcaCounts DEF D
  <2> DEFINE rest == tokens[m] - total
  <2>4. rest \in Nat /\ tokens[m] = rest + total
    BY <1>1, <2>2 DEF TradingInv, FundInv, FundTypeOK
  <2>5. tokens' = [tokens EXCEPT ![m] = rest]
    BY <2>2
  <2> HIDE DEF rest
  <2>6. T' = T + LamportsFor(rest, listed[m]) - LamportsFor(rest + total, listed[m])
    BY <2>3, <2>4, <2>5, TokenBalanceSet DEF T
  <2>7. L' = L
    BY <2>3 DEF L
  <2>8. EscrowValue(sell) = LamportsFor(total, listed[m])
    BY <2>1 DEF EscrowValue
  <2>9. /\ LamportsFor(rest, listed[m]) \in Nat /\ LamportsFor(total, listed[m]) \in Nat
        /\ LamportsFor(rest + total, listed[m]) \in Nat
        /\ LamportsFor(rest + total, listed[m])
              <= LamportsFor(rest, listed[m]) + LamportsFor(total, listed[m]) + 1
    BY <1>1, <2>3, <2>4, ValueSplits DEF TradingInv
  <2> HIDE DEF sell
  <2> QED
    BY <1>3, <1>4, <2>2, <2>3, <2>6, <2>7, <2>8, <2>9
<1> QED
  BY <1>5, <1>6 DEF CreateDcaOrder, order

\* Tokens that come back to the vault are worth there what they were worth in the order.
LEMMA TokensReturned ==
    ASSUME TradingInv, TradingInv', PricesKept, NEW m \in Listed, NEW amount \in Nat,
           tokens' = [tokens EXCEPT ![m] = @ + amount]
    PROVE  /\ SumFunction(TokenValues') >= SumFunction(TokenValues) + LamportsFor(amount, listed[m])
           /\ LamportsFor(amount, listed[m]) \in Nat
<1> DEFINE more == tokens[m] + amount
<1>1. tokens[m] \in Nat
  BY DEF TradingInv, FundInv, FundTypeOK, Listed
<1>2. more \in Nat /\ tokens' = [tokens EXCEPT ![m] = more]
  BY <1>1
<1> HIDE DEF more
<1>3. SumFunction(TokenValues') = SumFunction(TokenValues)
          + LamportsFor(more, listed[m]) - LamportsFor(tokens[m], listed[m])
  BY <1>2, TokenBalanceSet
<1>4. /\ LamportsFor(tokens[m], listed[m]) \in Nat /\ LamportsFor(amount, listed[m]) \in Nat
      /\ LamportsFor(more, listed[m]) \in Nat
      /\ LamportsFor(tokens[m], listed[m]) + LamportsFor(amount, listed[m])
            <= LamportsFor(more, listed[m])
  BY <1>1, ValueSplits DEF more, TradingInv
<1>5. SumFunction(TokenValues) \in Nat
  <2>1. IsFiniteSet(Listed) /\ TokenValues \in [Listed -> Nat]
    BY ValueNat DEF TokenValues, ValuesOf, Listed, TradingInv, FundInv, FundTypeOK
  <2> QED
    BY <2>1, SumFunctionNat
<1> QED
  BY <1>3, <1>4, <1>5

\* The value of the tokens after a step is a natural number, too.
LEMMA TokensWorthAfter ==
    ASSUME TradingInv, TradingInv', PricesKept
    PROVE  SumFunction(TokenValues') \in Nat
<1>1. Listed' = Listed /\ tokens' \in [Mints -> Nat] /\ IsFiniteSet(Listed)
  BY DEF PricesKept, Listed, TradingInv, FundInv, FundTypeOK
<1>2. TokenValues' = [m \in Listed |-> LamportsFor(tokens'[m], listed[m])]
  BY <1>1 DEF TokenValues, ValuesOf, PricesKept, LamportsFor
<1>3. \A m \in Listed : tokens'[m] \in Nat
  BY <1>1 DEF Listed
<1>4. TokenValues' \in [Listed -> Nat]
  BY <1>2, <1>3, ValueNat DEF TradingInv
<1> QED
  BY <1>1, <1>4, SumFunctionNat

\* Cancelling a limit order loses nothing.
LEMMA CancelLimitKeepsNav ==
    ASSUME TradingInv, TradingInv', SellMints \subseteq Listed, NEW i \in OrderIds,
           CancelLimitOrder(i), UNCHANGED dcaVars
    PROVE  Nav' >= Nav
<1> DEFINE order == limit[i]
           T == SumFunction(TokenValues)
           L == SumFunction(LimitValues)
           D == SumFunction(DcaValues)
           E == EscrowValue(order)
<1>1. T \in Nat /\ L \in Nat /\ D \in Nat /\ vault \in Nat /\ Nav = vault + T + L + D
  BY SumsNat DEF Nav, NavOf, TokenValues
<1>2. Nav' = vault' + T' + L' + D'
  BY DEF Nav, NavOf, TokenValues
<1>3. /\ order.status = "open" /\ NoLimit.status # "open"
      /\ limit' = [limit EXCEPT ![i] = NoLimit] /\ PricesKept
  BY DEF CancelLimitOrder, LimitCancellable, NoLimit, PricesKept, whitelists, oracle
<1>4. L = L' + E /\ L' \in Nat
  BY <1>3, LimitSumCloses
<1>5. D' = D
  BY <1>3, SumsKept DEF dcaVars
<1>6. order \in LimitOrder
  BY DEF TradingInv, LimitInv, LimitTypeOK, LimitOrder
<1>7. order.sol \in Nat /\ order.held \in Nat /\ TokenAccountRent \in Nat /\ OrderRent \in Nat
  BY <1>6, FundAccountsAssumption DEF LimitOrder
<1>8. CASE CancelBuyLimit(i)
  <2>1. /\ order.side = "BUY" /\ vault' = vault + order.sol + TokenAccountRent + OrderRent
        /\ tokens' = tokens
    BY <1>8 DEF CancelBuyLimit
  <2>2. T' = T /\ E = order.sol
    BY <1>3, <2>1, SumsKept DEF EscrowValue
  <2> HIDE DEF T, L, D, E, order
  <2> QED
    BY <1>1, <1>2, <1>4, <1>5, <1>7, <2>1, <2>2
<1>9. CASE CancelSellLimit(i)
  <2>1. /\ order.side = "SELL" /\ vault' = vault + TokenAccountRent + OrderRent
        /\ tokens' = [tokens EXCEPT ![order.mint] = @ + order.held]
    BY <1>9 DEF CancelSellLimit
  <2>2. order.mint \in Listed
    BY <1>3, <2>1 DEF SellMints, OpenLimits
  <2>3. E = LamportsFor(order.held, listed[order.mint])
    BY <2>1 DEF EscrowValue
  <2>4. T' >= T + E /\ E \in Nat /\ T' \in Nat
    BY <1>3, <1>7, <2>1, <2>2, <2>3, TokensReturned, TokensWorthAfter
  <2> HIDE DEF T, L, D, E, order
  <2> QED
    <3>1. vault' \in Nat /\ vault' >= vault
      BY <1>1, <1>7, <2>1
    <3>2. Nav = vault + T + (L' + E) + D
      BY <1>1, <1>4
    <3>3. Nav' = vault' + T' + L' + D
      BY <1>2, <1>5
    <3>4. vault' + T' + L' + D >= vault + T + (L' + E) + D
      <4>1. \A v, w, t, u, l, d, e \in Nat :
                w >= v /\ u >= t + e => w + u + l + d >= v + t + (l + e) + d
        OBVIOUS
      <4> QED
        BY <1>1, <1>4, <2>4, <3>1, <4>1
    <3> QED
      BY <3>2, <3>3, <3>4
<1> QED
  BY <1>8, <1>9 DEF CancelLimitOrder

\* Cancelling a DCA order loses nothing.
LEMMA CancelDcaKeepsNav ==
    ASSUME TradingInv, TradingInv', SellMints \subseteq Listed, NEW i \in OrderIds,
           CancelDcaOrder(i), UNCHANGED limitVars
    PROVE  Nav' >= Nav
<1> DEFINE order == dca[i]
           T == SumFunction(TokenValues)
           L == SumFunction(LimitValues)
           D == SumFunction(DcaValues)
           E == EscrowValue(order)
<1>1. T \in Nat /\ L \in Nat /\ D \in Nat /\ vault \in Nat /\ Nav = vault + T + L + D
  BY SumsNat DEF Nav, NavOf, TokenValues
<1>2. Nav' = vault' + T' + L' + D'
  BY DEF Nav, NavOf, TokenValues
<1>3. order \in DcaOrder /\ order.status = "open" /\ PricesKept
  BY DEF CancelDcaOrder, DcaCancellable, PricesKept, whitelists, oracle,
         TradingInv, DcaInv, DcaTypeOK, DcaOrder
<1>4. order.sol \in Nat /\ order.held \in Nat /\ TokenAccountRent \in Nat
  BY <1>3, FundAccountsAssumption DEF DcaOrder
<1>5. L' = L
  BY <1>3, SumsKept DEF limitVars
<1>6. \E after : after.status # "open" /\ dca' = [dca EXCEPT ![i] = after]
  <2>1. CASE CancelBuyDca(i)
    <3> DEFINE after == [order EXCEPT !.status = "cancelled", !.sol = 0, !.ata = FALSE]
    <3>1. after.status = "cancelled"
      BY <1>3 DEF DcaOrder
    <3>2. dca' = [dca EXCEPT ![i] = after]
      BY <2>1 DEF CancelBuyDca
    <3> QED
      BY <3>1, <3>2
  <2>2. CASE CancelSellDca(i)
    <3> DEFINE after == [order EXCEPT !.status = "cancelled", !.held = 0, !.ata = FALSE]
    <3>1. after.status = "cancelled"
      BY <1>3 DEF DcaOrder
    <3>2. dca' = [dca EXCEPT ![i] = after]
      BY <2>2 DEF CancelSellDca
    <3> QED
      BY <3>1, <3>2
  <2> QED
    BY <2>1, <2>2 DEF CancelDcaOrder
<1>7. D = D' + E /\ D' \in Nat
  BY <1>3, <1>6, DcaSumCloses
<1>8. T' >= T + (vault - vault') + E /\ vault' \in Nat
  <2>1. vault' \in Nat
    BY DEF TradingInv, FundInv, FundTypeOK
  <2>2. CASE CancelBuyDca(i)
    <3>1. order.side = "BUY" /\ vault' = vault + order.sol + TokenAccountRent /\ tokens' = tokens
      BY <2>2 DEF CancelBuyDca
    <3>2. T' = T /\ E = order.sol
      BY <1>3, <3>1, SumsKept DEF EscrowValue
    <3> HIDE DEF T, L, D, E, order
    <3> QED
      BY <1>1, <1>4, <2>1, <3>1, <3>2
  <2>3. CASE CancelSellDca(i)
    <3>1. /\ order.side = "SELL" /\ vault' = vault + TokenAccountRent
          /\ tokens' = [tokens EXCEPT ![order.mint] = @ + order.held]
      BY <2>3 DEF CancelSellDca
    <3>2. order.mint \in Listed
      BY <1>3, <3>1 DEF SellMints, OpenDcas
    <3>3. E = LamportsFor(order.held, listed[order.mint])
      BY <3>1 DEF EscrowValue
    <3>4. T' >= T + E /\ E \in Nat /\ T' \in Nat
      BY <1>3, <1>4, <3>1, <3>2, <3>3, TokensReturned, TokensWorthAfter
    <3>5. vault' = vault + TokenAccountRent
      BY <3>1
    <3>6. \A t, u, e, v, r \in Nat : u >= t + e => u >= t + (v - (v + r)) + e
      OBVIOUS
    <3> HIDE DEF T, L, D, E, order
    <3> QED
      BY <1>1, <1>4, <2>1, <3>4, <3>5, <3>6
  <2> QED
    BY <2>2, <2>3 DEF CancelDcaOrder
<1>9. E \in Nat /\ T' \in Nat
  <2>1. order.side # "BUY" => order.mint \in Listed
    BY <1>3 DEF SellMints, OpenDcas, DcaOrder
  <2> QED
    BY <1>3, <1>4, <2>1, EscrowNat, TokensWorthAfter
<1>10. \A v, w, t, u, l, d, e \in Nat :
          u >= t + (v - w) + e => w + u + l + d >= v + t + l + (d + e)
  OBVIOUS
<1> HIDE DEF T, L, D, E, order
<1> QED
  BY <1>1, <1>2, <1>5, <1>7, <1>8, <1>9, <1>10

\* The NAV after a step is a number, too.
LEMMA SumsNatAfter ==
    ASSUME TradingInv', SellMints' \subseteq Listed'
    PROVE  /\ SumFunction(TokenValues') \in Nat /\ SumFunction(LimitValues') \in Nat
           /\ SumFunction(DcaValues') \in Nat /\ vault' \in Nat /\ Nav' \in Nat
<1>0. ASSUME NEW m \in Listed', NEW amount \in Nat
      PROVE  ((amount * price'[listed'[m]]) \div solPrice') \in Nat
  <2>1. price'[listed'[m]] \in Nat /\ solPrice' \in Nat \ {0}
    <3>1. listed'[m] \in Feeds
      BY DEF TradingInv, FundInv, FundTypeOK, Listed
    <3>2. price'[listed'[m]] \in Prices /\ solPrice' \in SolPrices
      BY <3>1 DEF TradingInv, FundInv, FundTypeOK
    <3> QED
      BY <3>2, FundAccountsAssumption
  <2> DEFINE p == price'[listed'[m]]
  <2> HIDE DEF p
  <2>2. amount * p \in Nat
    BY <2>1 DEF p
  <2>3. (amount * p) \div solPrice' \in Nat
    BY <2>1, <2>2, DivisionRoundsDown
  <2> QED
    BY <2>3 DEF p
<1>1. IsFiniteSet(Listed') /\ IsFiniteSet(OpenLimits') /\ IsFiniteSet(OpenDcas')
  <2>1. OpenLimits' \subseteq OrderIds /\ OpenDcas' \subseteq OrderIds
    BY DEF OpenLimits, OpenDcas
  <2> QED
    BY <2>1, FS_Subset, FundAccountsAssumption DEF TradingInv, FundInv
<1>2. TokenValues' \in [Listed' -> Nat]
  <2>1. \A m \in Listed' : tokens'[m] \in Nat
    BY DEF TradingInv, FundInv, FundTypeOK, Listed
  <2> QED
    BY <1>0, <2>1 DEF TokenValues, ValuesOf, LamportsFor
<1>3. LimitValues' \in [OpenLimits' -> Nat]
  <2>1. ASSUME NEW i \in OpenLimits' PROVE EscrowValue(limit[i])' \in Nat
    <3>1. limit'[i] \in LimitOrder
      BY DEF OpenLimits, TradingInv, LimitInv, LimitTypeOK, LimitOrder
    <3>2. limit'[i].side # "BUY" => limit'[i].mint \in Listed'
      BY <3>1 DEF OpenLimits, SellMints, LimitOrder
    <3> QED
      BY <1>0, <3>1, <3>2 DEF LimitOrder, EscrowValue, LamportsFor
  <2> QED
    BY <2>1 DEF LimitValues
<1>4. DcaValues' \in [OpenDcas' -> Nat]
  <2>1. ASSUME NEW i \in OpenDcas' PROVE EscrowValue(dca[i])' \in Nat
    <3>1. dca'[i] \in DcaOrder
      BY DEF OpenDcas, TradingInv, DcaInv, DcaTypeOK, DcaOrder
    <3>2. dca'[i].side # "BUY" => dca'[i].mint \in Listed'
      BY <3>1 DEF OpenDcas, SellMints, DcaOrder
    <3> QED
      BY <1>0, <3>1, <3>2 DEF DcaOrder, EscrowValue, LamportsFor
  <2> QED
    BY <2>1 DEF DcaValues
<1>5. vault' \in Nat
  BY DEF TradingInv, FundInv, FundTypeOK
<1>6. SumFunction(TokenValues') \in Nat /\ SumFunction(LimitValues') \in Nat
      /\ SumFunction(DcaValues') \in Nat
  BY <1>1, <1>2, <1>3, <1>4, SumFunctionNat
<1> QED
  BY <1>5, <1>6 DEF Nav, NavOf, TokenValues

\* An instruction that is no creation and no cancellation looks like none.
LEMMA NoOrderMoved ==
    ASSUME TradingInv, FundNext /\ UNCHANGED <<limitVars, dcaVars>>
    PROVE  ~OrderCreated /\ ~OrderCancelled
<1>1. nextOrderId' = nextOrderId
  BY FundNextKeepsIds
<1> QED
  BY <1>1 DEF OrderCreated, OrderCancelled, limitVars, dcaVars

\* An executed limit order is neither new nor cancelled.
LEMMA LimitFillMovesNoOrder ==
    ASSUME TradingInv, NEW i \in OrderIds, NEW out \in Outs, ExecuteLimitOrder(i, out),
           UNCHANGED dcaVars
    PROVE  ~OrderCreated /\ ~OrderCancelled
<1>1. limit \in [OrderIds -> LimitOrder]
  BY DEF TradingInv, LimitInv, LimitTypeOK, LimitOrder
<1>2. \E sol : limit' = [limit EXCEPT ![i] = ExecutedLimit(limit[i], sol)]
  BY DEF ExecuteLimitOrder, ExecuteBuyLimit, ExecuteSellLimit
<1>3. PICK order : limit' = [limit EXCEPT ![i] = order] /\ order.status = "executed"
  <2>1. \A sol : ExecutedLimit(limit[i], sol).status = "executed"
    BY <1>1 DEF ExecutedLimit, LimitOrder
  <2> QED
    BY <1>2, <2>1
<1>4. \A j \in OrderIds : limit'[j].status = limit[j].status \/ limit'[j].status = "executed"
  BY <1>1, <1>3
<1> QED
  BY <1>4 DEF OrderCreated, OrderCancelled, ExecuteLimitOrder, dcaVars

\* Nor is a DCA order whose slice was executed.
LEMMA DcaFillMovesNoOrder ==
    ASSUME TradingInv, NEW i \in OrderIds, NEW out \in Outs, ExecuteDcaOrder(i, out),
           UNCHANGED limitVars
    PROVE  ~OrderCreated /\ ~OrderCancelled
<1>1. PICK after : SliceTaken(dca[i], after) /\ dca' = [dca EXCEPT ![i] = Settled(after)]
  BY ExecuteSettles DEF TradingInv
<1>2. dca \in [OrderIds -> DcaOrder] /\ dca[i].status = "open" /\ SliceOf(dca[i]) > 0
      /\ HoldsRest(dca[i])
  BY EscrowByOrder DEF TradingInv, DcaInv, DcaTypeOK, DcaOrder, ExecuteDcaOrder, DcaExecutable
<1>3. Settled(after).status # "cancelled"
  BY <1>1, <1>2, SettledHoldsRest
<1>4. \A j \in OrderIds : dca'[j] = dca[j] \/ dca'[j].status # "cancelled"
  BY <1>1, <1>2, <1>3
<1> QED
  BY <1>4 DEF OrderCreated, OrderCancelled, ExecuteDcaOrder, limitVars

\* Moving value between the fund's vaults and the orders' changes nobody's share by more
\* than the lamport that a second rounding costs, whatever the prices and amounts.
THEOREM NavKeptByOrdersHolds == TradingSpec => NavKeptByOrders
<1> DEFINE Kept == (OrderCreated \/ OrderCancelled) /\ AllPriced /\ AllPriced'
                        => Nav' >= Nav - 1
<1>1. ASSUME TradingInv, TradingNext PROVE Kept
  <2> SUFFICES ASSUME OrderCreated \/ OrderCancelled, AllPriced, AllPriced'
               PROVE  Nav' >= Nav - 1
    OBVIOUS
  <2>1. TradingInv' /\ SellMints \subseteq Listed /\ SellMints' \subseteq Listed'
    BY <1>1, TradingNextKeeps DEF AllPriced
  <2>2. Nav \in Nat
    BY <1>1, <2>1, SumsNat
  <2>3. ASSUME Nav' >= Nav PROVE Nav' >= Nav - 1
    <3>1. Nav' \in Nat
      BY <2>1, SumsNatAfter
    <3> QED
      BY <2>2, <2>3, <3>1
  <2>4. CASE LimitNext /\ UNCHANGED dcaVars
    <3>1. ASSUME NEW side \in {"BUY", "SELL"}, NEW m \in Mints, NEW amount \in Amounts,
                 NEW minOut \in MinOuts, NEW limitPrice \in LimitPrices,
                 NEW unit \in PriceUnits, NEW expiry \in Expiries,
                 CreateLimitOrder(side, m, amount, minOut, limitPrice, unit, expiry)
          PROVE  Nav' >= Nav - 1
      BY <1>1, <2>1, <2>4, <3>1, CreateLimitKeepsNav
    <3>2. ASSUME NEW i \in OrderIds, NEW out \in Outs, ExecuteLimitOrder(i, out) PROVE FALSE
      BY <1>1, <2>4, <3>2, LimitFillMovesNoOrder
    <3>3. ASSUME NEW i \in OrderIds, CancelLimitOrder(i) PROVE Nav' >= Nav
      BY <1>1, <2>1, <2>4, <3>3, CancelLimitKeepsNav
    <3> QED
      BY <2>3, <2>4, <3>1, <3>2, <3>3 DEF LimitNext
  <2>5. CASE DcaNext /\ UNCHANGED limitVars
    <3>1. ASSUME NEW side \in {"BUY", "SELL"}, NEW m \in Mints, NEW total \in Amounts,
                 NEW slice \in Amounts, NEW interval \in Intervals, NEW minOut \in MinOuts,
                 NEW expiry \in Expiries,
                 CreateDcaOrder(side, m, total, slice, interval, minOut, expiry)
          PROVE  Nav' >= Nav - 1
      BY <1>1, <2>1, <2>5, <3>1, CreateDcaKeepsNav
    <3>2. ASSUME NEW i \in OrderIds, NEW out \in Outs, ExecuteDcaOrder(i, out) PROVE FALSE
      BY <1>1, <2>5, <3>2, DcaFillMovesNoOrder
    <3>3. ASSUME NEW i \in OrderIds, CancelDcaOrder(i) PROVE Nav' >= Nav
      BY <1>1, <2>1, <2>5, <3>3, CancelDcaKeepsNav
    <3> QED
      BY <2>3, <2>5, <3>1, <3>2, <3>3 DEF DcaNext
  <2> QED
    BY <1>1, <2>4, <2>5, NoOrderMoved DEF TradingNext
<1>2. TradingInv /\ [TradingNext]_tradingVars => [Kept]_tradingVars
  BY <1>1
<1> QED
  BY <1>2, TradingInvariant, PTL DEF TradingSpec, NavKeptByOrders

-----------------------------------------------------------------------------
(* What a fill may cost.                                                   *)

\* The NAV before and after, sum by sum: a loss moves to the other side.
LEMMA FillArithmetic ==
    ASSUME NEW v \in Nat, NEW t \in Nat, NEW l \in Nat, NEW d \in Nat,
           NEW w \in Nat, NEW u \in Nat, NEW k \in Nat, NEW e \in Nat, NEW loss \in Nat,
           (w + u + k + e) + loss >= v + t + l + d
    PROVE  w + u + k + e >= v + t + l + d - loss
  OBVIOUS

\* An executed limit order.
LEMMA LimitFillBounded ==
    ASSUME TradingInv, TradingInv', SellMints \subseteq Listed,
           NEW i \in OrderIds, NEW out \in Outs, ExecuteLimitOrder(i, out), UNCHANGED dcaVars
    PROVE  Nav' >= Nav - TolerableLoss(limit[i], limit[i].amountIn)
<1> DEFINE order == limit[i]
           a == order.amountIn
           f == order.feed
           T == SumFunction(TokenValues)
           L == SumFunction(LimitValues)
           D == SumFunction(DcaValues)
           E == EscrowValue(order)
           R == (2 * price[f]) \div solPrice
           F == FeeOf(a, MaxSlippageBps)
           G == FeeOf(LamportsFor(a, f), MaxSlippageBps)
<1>1. T \in Nat /\ L \in Nat /\ D \in Nat /\ vault \in Nat /\ Nav = vault + T + L + D
  BY SumsNat DEF Nav, NavOf, TokenValues
<1>2. Nav' = vault' + T' + L' + D'
  BY DEF Nav, NavOf, TokenValues
<1>3. order \in LimitOrder /\ PricesKept /\ LimitExecutable(order)
  BY DEF ExecuteLimitOrder, ExecuteBuyLimit, ExecuteSellLimit, PricesKept, whitelists, oracle,
         TradingInv, LimitInv, LimitTypeOK, LimitOrder
<1>4. /\ order.status = "open" /\ order.mint \in Listed /\ f = listed[order.mint]
      /\ a \in Nat /\ order.sol \in Nat /\ order.held \in Nat /\ out \in Nat
      /\ TokenAccountRent \in Nat /\ SolVaultRent \in Nat
  BY <1>3, FundAccountsAssumption DEF LimitExecutable, Listed, LimitOrder
<1>5. D' = D
  BY <1>3, SumsKept DEF dcaVars
<1>6. L = L' + E /\ L' \in Nat
  <2>1. \A sol : ExecutedLimit(order, sol).status # "open"
    BY <1>3 DEF ExecutedLimit, LimitOrder
  <2>2. \E after : after.status # "open" /\ limit' = [limit EXCEPT ![i] = after]
    BY <2>1 DEF ExecuteLimitOrder, ExecuteBuyLimit, ExecuteSellLimit
  <2> QED
    BY <1>3, <1>4, <2>2, LimitSumCloses
<1>7. T' \in Nat
  BY <1>3, TokensWorthAfter
<1>8. CASE ExecuteBuyLimit(i, out)
  <2>1. /\ order.side = "BUY" /\ vault' = vault + TokenAccountRent
        /\ tokens' = [tokens EXCEPT ![order.mint] = @ + out]
        /\ out >= ApplyMaxSlippage(TokensFor(a, f), MaxSlippageBps)
    BY <1>8 DEF ExecuteBuyLimit, EnoughOut
  <2>2. E = order.sol /\ order.sol = SolVaultRent + a
    BY <1>4, <2>1 DEF EscrowValue, OpenLimits, TradingInv, LimitInv, LimitEscrowExact
  <2>3. TolerableLoss(order, a) = F + SolVaultRent + 3 + R
    BY <2>1 DEF TolerableLoss
  <2>4. T' >= T + LamportsFor(out, f)
    BY <1>3, <1>4, <2>1, TokensReturned
  <2>5. /\ LamportsFor(out, f) \in Nat /\ F \in Nat /\ R \in Nat
        /\ LamportsFor(out, f) + F + 3 + R >= a
    BY <1>4, <2>1, BuyFillWorth DEF TradingInv
  <2>6. vault' = vault + TokenAccountRent
    BY <2>1
  <2> DEFINE V == LamportsFor(out, f)
  <2> HIDE DEF T, L, D, E, R, F, V, order, f, a
  <2>7. vault' + T' + L' + D' + (F + SolVaultRent + 3 + R) >= vault + T + L + D
    <3> DEFINE cost == F + SolVaultRent + 3 + R
    <3>1. \A u, t, w, b, x, y, s \in Nat :
              u >= t + w /\ w + x + 3 + y >= b => u + (x + s + 3 + y) >= t + b + s
      OBVIOUS
    <3>2. T' >= T + V /\ V \in Nat /\ V + F + 3 + R >= a
      BY <2>4, <2>5 DEF V
    <3>3. T' + cost >= T + a + SolVaultRent
      BY <1>1, <1>4, <1>7, <2>5, <3>1, <3>2
    <3>4. cost \in Nat
      BY <1>4, <2>5
    <3> HIDE DEF cost
    <3>5. L' + a + SolVaultRent = L
      BY <1>4, <1>6, <2>2
    <3>9. \A u, m, c, t, l, b, s \in Nat :
              u + c >= t + b + s /\ m + b + s = l => u + m + c >= t + l
      OBVIOUS
    <3>6. T' + L' + cost >= T + L
      BY <1>1, <1>4, <1>6, <1>7, <3>3, <3>4, <3>5, <3>9
    <3>7. \A v, r, u, m, c, t, l, d \in Nat :
              u + m + c >= t + l => (v + r) + u + m + d + c >= v + t + l + d
      OBVIOUS
    <3>8. vault' + T' + L' + D' + cost >= vault + T + L + D
      BY <1>1, <1>4, <1>5, <1>6, <1>7, <2>6, <3>4, <3>6, <3>7
    <3> QED
      BY <3>8 DEF cost
  <2>8. F + SolVaultRent + 3 + R \in Nat /\ vault' \in Nat /\ D' \in Nat
    BY <1>1, <1>4, <1>5, <2>5, <2>6
  <2>9. vault' + T' + L' + D' >= vault + T + L + D - (F + SolVaultRent + 3 + R)
    BY <1>1, <1>6, <1>7, <2>7, <2>8, FillArithmetic
  <2> DEFINE loss == TolerableLoss(order, a)
  <2>10. loss = TolerableLoss(limit[i], limit[i].amountIn)
    BY DEF order, a
  <2> HIDE DEF loss
  <2>11. Nav' >= Nav - loss
    <3>1. loss = F + SolVaultRent + 3 + R
      BY <2>3 DEF loss
    <3>2. Nav = vault + T + L + D
      BY <1>1
    <3> QED
      BY <1>1, <1>2, <1>6, <1>7, <2>5, <2>8, <2>9, <3>1, <3>2
  <2> QED
    BY <2>10, <2>11
<1>9. CASE ExecuteSellLimit(i, out)
  <2>1. /\ order.side = "SELL" /\ vault' = vault + out + TokenAccountRent
        /\ order.held = a /\ tokens' = tokens
        /\ out >= ApplyMaxSlippage(LamportsFor(a, f), MaxSlippageBps)
    BY <1>9 DEF ExecuteSellLimit, EnoughOut
  <2>2. E = LamportsFor(a, f)
    BY <1>4, <2>1 DEF EscrowValue
  <2>3. TolerableLoss(order, a) = G + SolVaultRent + 3 + R
    BY <2>1 DEF TolerableLoss
  <2>4. T' = T
    BY <1>3, <2>1, SumsKept
  <2>5. E \in Nat /\ G \in Nat /\ R \in Nat /\ out + G + 1 >= E
    BY <1>4, <2>1, <2>2, SellFillWorth DEF TradingInv
  <2>6. vault' = vault + out + TokenAccountRent
    BY <2>1
  <2> HIDE DEF T, L, D, E, R, G, order, f, a
  <2>7. vault' + T' + L' + D' + (G + SolVaultRent + 3 + R) >= vault + T + L + D
    <3>1. \A v, o, r, t, l, d, e, x, y, s \in Nat :
              o + x + 1 >= e
                => (v + o + r) + t + l + d + (x + s + 3 + y) >= v + t + (l + e) + d
      OBVIOUS
    <3> QED
      BY <1>1, <1>4, <1>5, <1>6, <2>4, <2>5, <2>6, <3>1
  <2>8. G + SolVaultRent + 3 + R \in Nat /\ vault' \in Nat /\ D' \in Nat
    BY <1>1, <1>4, <1>5, <2>5, <2>6
  <2>9. vault' + T' + L' + D' >= vault + T + L + D - (G + SolVaultRent + 3 + R)
    BY <1>1, <1>6, <1>7, <2>7, <2>8, FillArithmetic
  <2> DEFINE loss == TolerableLoss(order, a)
  <2>10. loss = TolerableLoss(limit[i], limit[i].amountIn)
    BY DEF order, a
  <2> HIDE DEF loss
  <2>11. Nav' >= Nav - loss
    <3>1. loss = G + SolVaultRent + 3 + R
      BY <2>3 DEF loss
    <3>2. Nav = vault + T + L + D
      BY <1>1
    <3> QED
      BY <1>1, <1>2, <1>6, <1>7, <2>5, <2>8, <2>9, <3>1, <3>2
  <2> QED
    BY <2>10, <2>11
<1> QED
  BY <1>8, <1>9 DEF ExecuteLimitOrder

\* What one executed slice does to the orders' value and to the vault, BUY: the slice is
\* gone from the order, all the rest is still counted.
LEMMA BuySliceCounts ==
    ASSUME TradingInv, SellMints \subseteq Listed, PricesKept, NEW i \in OrderIds,
           dca[i].status = "open", dca[i].side = "BUY", SliceOf(dca[i]) > 0,
           NEW after, SliceTaken(dca[i], after), dca' = [dca EXCEPT ![i] = Settled(after)]
    PROVE  /\ Swept(after) \in Nat /\ SliceOf(dca[i]) \in Nat
           /\ SumFunction(DcaValues') \in Nat
           /\ SumFunction(DcaValues') + Swept(after) + SliceOf(dca[i]) >= SumFunction(DcaValues)
<1> DEFINE order == dca[i]
           a == SliceOf(order)
           D == SumFunction(DcaValues)
           E == EscrowValue(order)
           X == EscrowValue(Settled(after))
<1>1. order \in DcaOrder /\ HoldsRest(order)
  BY EscrowByOrder DEF TradingInv, DcaInv, DcaTypeOK, DcaOrder
<1>2. a \in Nat /\ a <= order.remaining /\ order.sol = SolVaultRent + order.remaining
      /\ SolVaultRent \in Nat /\ order.remaining \in Nat /\ order.held = 0
  BY <1>1, SliceInRest, FundAccountsAssumption DEF HoldsRest, DcaOrder
<1>3. /\ Settled(after) \in DcaOrder
      /\ Settled(after).status = IF Finished(after) THEN "executed" ELSE "open"
      /\ Swept(after) \in Nat
  BY <1>1, SettledHoldsRest
<1>4. /\ after \in DcaOrder /\ after.side = "BUY" /\ after.held = 0
      /\ after.sol = order.sol - a
  BY <1>2 DEF SliceTaken
<1>5. D \in Nat
  BY SumsNat
<1>6. E = order.sol
  BY DEF EscrowValue
<1>7. CASE Finished(after)
  <2>1. Settled(after).status # "open"
    BY <1>3, <1>7
  <2>2. D = D' + E /\ D' \in Nat
    BY <2>1, DcaSumCloses
  <2>3. Swept(after) = after.sol + TokenAccountRent
    BY <1>4, <1>7 DEF Swept
  <2>4. TokenAccountRent \in Nat
    BY FundAccountsAssumption
  <2> HIDE DEF D, E, a, order
  <2>5. D' + Swept(after) + a >= D
    BY <1>2, <1>4, <1>5, <1>6, <2>2, <2>3, <2>4
  <2> QED
    BY <1>2, <1>3, <2>2, <2>5 DEF D, a, order
<1>8. CASE ~Finished(after)
  <2>1. Settled(after) = after /\ Swept(after) = 0 /\ Settled(after).status = "open"
    BY <1>3, <1>8 DEF Settled, Swept
  <2>2. X = order.sol - a /\ X \in Nat
    BY <1>2, <1>4, <2>1 DEF EscrowValue
  <2>3. D' = D + X - E
    BY <2>1, <2>2, DcaSumChanges
  <2>4. E <= D
    BY <1>6, OrderInSum
  <2> HIDE DEF D, E, a, order, X
  <2>5. D' \in Nat /\ D' + Swept(after) + a >= D
    BY <1>2, <1>5, <1>6, <2>1, <2>2, <2>3, <2>4
  <2> QED
    BY <1>2, <1>3, <2>5 DEF D, a, order
<1> QED
  BY <1>7, <1>8

\* SELL: what is gone is the value of the slice, or a lamport more.
LEMMA SellSliceCounts ==
    ASSUME TradingInv, SellMints \subseteq Listed, PricesKept, NEW i \in OrderIds,
           dca[i].status = "open", dca[i].side = "SELL", SliceOf(dca[i]) > 0,
           NEW after, SliceTaken(dca[i], after), dca' = [dca EXCEPT ![i] = Settled(after)]
    PROVE  /\ Swept(after) \in Nat /\ SliceOf(dca[i]) \in Nat
           /\ SumFunction(DcaValues') \in Nat
           /\ SumFunction(DcaValues') + LamportsFor(SliceOf(dca[i]), listed[dca[i].mint]) + 1
                  >= SumFunction(DcaValues)
<1> DEFINE order == dca[i]
           a == SliceOf(order)
           rest == order.held - a
           D == SumFunction(DcaValues)
           E == EscrowValue(order)
           X == EscrowValue(Settled(after))
           V == LamportsFor(a, listed[order.mint])
           W == LamportsFor(rest, listed[order.mint])
<1>1. order \in DcaOrder /\ HoldsRest(order)
  BY EscrowByOrder DEF TradingInv, DcaInv, DcaTypeOK, DcaOrder
<1>2. a \in Nat /\ a <= order.remaining /\ order.held = order.remaining
      /\ order.remaining \in Nat
  BY <1>1, SliceInRest DEF HoldsRest, DcaOrder
<1>3. /\ Settled(after) \in DcaOrder
      /\ Settled(after).status = IF Finished(after) THEN "executed" ELSE "open"
      /\ Swept(after) \in Nat
  BY <1>1, SettledHoldsRest
<1>4. /\ after \in DcaOrder /\ after.side = "SELL" /\ after.held = rest
      /\ after.remaining = order.remaining - a /\ after.mint = order.mint
  BY <1>2 DEF SliceTaken
<1>5. D \in Nat
  BY SumsNat
<1>6. order.mint \in Listed
  BY DEF SellMints, OpenDcas
<1>7. rest \in Nat /\ order.held = rest + a
  BY <1>2
<1>8. E = LamportsFor(rest + a, listed[order.mint])
  BY <1>7 DEF EscrowValue
<1>9. V \in Nat /\ W \in Nat /\ E \in Nat /\ E <= W + V + 1
  <2> DEFINE f == listed[order.mint]
  <2> HIDE DEF rest, a, order, f
  <2>1. /\ LamportsFor(rest, f) \in Nat /\ LamportsFor(a, f) \in Nat
        /\ LamportsFor(rest + a, f) \in Nat
        /\ LamportsFor(rest + a, f) <= LamportsFor(rest, f) + LamportsFor(a, f) + 1
    BY <1>2, <1>6, <1>7, ValueSplits DEF TradingInv, f
  <2> QED
    BY <1>8, <2>1 DEF f
<1>10. CASE Finished(after)
  <2>1. Settled(after).status # "open"
    BY <1>3, <1>10
  <2>2. D = D' + E /\ D' \in Nat
    BY <2>1, DcaSumCloses
  <2>3. rest = 0
    BY <1>2, <1>4, <1>10 DEF Finished
  <2>4. E = V
    <3>1. 0 + a = a
      BY <1>2
    <3> QED
      BY <1>8, <2>3, <3>1
  <2> HIDE DEF D, E, a, order, V, W, rest
  <2>5. D' + V + 1 >= D
    <3>1. \A x, v \in Nat : x + v + 1 >= x + v
      OBVIOUS
    <3> QED
      BY <1>5, <1>9, <2>2, <2>4, <3>1
  <2> QED
    BY <1>2, <1>3, <2>2, <2>5 DEF D, a, order, V
<1>11. CASE ~Finished(after)
  <2>1. Settled(after) = after /\ Settled(after).status = "open"
    BY <1>3, <1>11 DEF Settled
  <2>2. X = W /\ X \in Nat
    BY <1>4, <1>9, <2>1 DEF EscrowValue
  <2>3. D' = D + X - E
    BY <2>1, <2>2, DcaSumChanges
  <2>4. E <= D
    BY OrderInSum
  <2> HIDE DEF D, E, a, order, X, V, W, rest
  <2>5. D' \in Nat /\ D' + V + 1 >= D
    BY <1>5, <1>9, <2>2, <2>3, <2>4
  <2> QED
    BY <1>2, <1>3, <2>5 DEF D, a, order, V
<1> QED
  BY <1>10, <1>11

\* An executed slice of a DCA order.
LEMMA DcaFillBounded ==
    ASSUME TradingInv, TradingInv', SellMints \subseteq Listed,
           NEW i \in OrderIds, NEW out \in Outs, ExecuteDcaOrder(i, out), UNCHANGED limitVars
    PROVE  Nav' >= Nav - TolerableLoss(dca[i], SliceOf(dca[i]))
<1> DEFINE order == dca[i]
           a == SliceOf(order)
           f == order.feed
           T == SumFunction(TokenValues)
           L == SumFunction(LimitValues)
           D == SumFunction(DcaValues)
           R == (2 * price[f]) \div solPrice
           F == FeeOf(a, MaxSlippageBps)
           G == FeeOf(LamportsFor(a, f), MaxSlippageBps)
           loss == TolerableLoss(order, a)
<1>1. T \in Nat /\ L \in Nat /\ D \in Nat /\ vault \in Nat /\ Nav = vault + T + L + D
  BY SumsNat DEF Nav, NavOf, TokenValues
<1>2. Nav' = vault' + T' + L' + D'
  BY DEF Nav, NavOf, TokenValues
<1>3. order \in DcaOrder /\ PricesKept /\ DcaExecutable(order) /\ SliceOutOK(order, out)
  BY DEF ExecuteDcaOrder, PricesKept, whitelists, oracle, TradingInv, DcaInv, DcaTypeOK, DcaOrder
<1>4. /\ order.status = "open" /\ order.mint \in Listed /\ f = listed[order.mint]
      /\ SliceOf(order) > 0 /\ out \in Nat
      /\ TokenAccountRent \in Nat /\ SolVaultRent \in Nat
  BY <1>3, FundAccountsAssumption DEF DcaExecutable, Listed, DcaOrder
<1>5. PICK after : /\ SliceTaken(order, after)
                   /\ dca' = [dca EXCEPT ![i] = Settled(after)]
                   /\ IF order.side = "BUY"
                      THEN /\ vault' = vault + Swept(after)
                           /\ tokens' = [tokens EXCEPT ![order.mint] = @ + out]
                      ELSE /\ vault' = vault + out + Swept(after)
                           /\ tokens' = tokens
  BY ExecuteSettles DEF TradingInv
<1>6. L' = L
  BY <1>3, SumsKept DEF limitVars
<1>7. T' \in Nat /\ vault' \in Nat
  BY <1>3, TokensWorthAfter DEF TradingInv, FundInv, FundTypeOK
<1>8. loss = TolerableLoss(dca[i], SliceOf(dca[i]))
  OBVIOUS
<1>9. CASE order.side = "BUY"
  <2>1. /\ vault' = vault + Swept(after)
        /\ tokens' = [tokens EXCEPT ![order.mint] = @ + out]
        /\ out >= ApplyMaxSlippage(TokensFor(a, f), MaxSlippageBps)
    BY <1>3, <1>5, <1>9 DEF SliceOutOK
  <2> DEFINE V == LamportsFor(out, f)
             S == Swept(after)
  <2>2. S \in Nat /\ a \in Nat /\ D' \in Nat /\ D' + S + a >= D
    BY <1>3, <1>4, <1>5, <1>9, BuySliceCounts
  <2>3. loss = F + SolVaultRent + 3 + R
    BY <1>9 DEF TolerableLoss
  <2>4. T' >= T + V
    BY <1>3, <1>4, <2>1, TokensReturned
  <2>5. V \in Nat /\ F \in Nat /\ R \in Nat /\ V + F + 3 + R >= a
    BY <1>4, <2>1, <2>2, BuyFillWorth DEF TradingInv
  <2>6. vault' = vault + S
    BY <2>1
  <2> HIDE DEF T, L, D, R, F, G, V, S, order, f, a, loss
  <2>7. (vault' + T' + L' + D') + loss >= vault + T + L + D
    <3>1. \A u, t, w, b, x, y \in Nat :
              u >= t + w /\ w + x + 3 + y >= b => u + x + 3 + y >= t + b
      OBVIOUS
    <3>2. \A u, t, b, x, y, e, s, d \in Nat :
              u + x + 3 + y >= t + b /\ e + s + b >= d => u + x + 3 + y + e + s >= t + d
      OBVIOUS
    <3>3. \A v, u, t, l, d, e, s, c \in Nat :
              u + c + e + s >= t + d => v + s + u + l + e + c >= v + t + l + d
      OBVIOUS
    <3>4. T' + F + 3 + R >= T + a
      BY <1>1, <1>7, <2>2, <2>4, <2>5, <3>1
    <3>5. T' + F + 3 + R + D' + S >= T + D
      BY <1>1, <1>7, <2>2, <2>5, <3>2, <3>4
    <3> DEFINE cost == F + SolVaultRent + 3 + R
    <3>6. \A u, x, y, e, s, z, r \in Nat :
              u + x + 3 + y + e + s >= z => u + (x + r + 3 + y) + e + s >= z
      OBVIOUS
    <3>7. T + D \in Nat
      BY <1>1
    <3>8. cost \in Nat /\ T' + cost + D' + S >= T + D
      BY <1>4, <1>7, <2>2, <2>5, <3>5, <3>6, <3>7
    <3> HIDE DEF cost
    <3>9. vault + S + T' + L + D' + cost >= vault + T + L + D
      BY <1>1, <1>7, <2>2, <3>3, <3>8
    <3> QED
      BY <1>6, <2>3, <2>6, <3>9 DEF cost
  <2>8. loss \in Nat /\ L' \in Nat
    BY <1>1, <1>4, <1>6, <2>3, <2>5
  <2>9. Nav' >= Nav - loss
    <3>1. Nav' + loss >= Nav
      BY <1>1, <1>2, <2>7
    <3>2. \A v, t, l, d \in Nat : v + t + l + d \in Nat
      OBVIOUS
    <3>3. Nav' \in Nat /\ Nav \in Nat
      BY <1>1, <1>2, <1>7, <2>2, <2>8, <3>2
    <3>4. \A x, y, r \in Nat : x + r >= y => x >= y - r
      OBVIOUS
    <3> QED
      BY <2>8, <3>1, <3>3, <3>4
  <2> QED
    BY <1>8, <2>9
<1>10. CASE order.side = "SELL"
  <2>1. /\ vault' = vault + out + Swept(after) /\ tokens' = tokens
        /\ out >= ApplyMaxSlippage(LamportsFor(a, f), MaxSlippageBps)
    BY <1>3, <1>5, <1>10 DEF SliceOutOK
  <2> DEFINE V == LamportsFor(a, f)
             S == Swept(after)
  <2>2. S \in Nat /\ a \in Nat /\ D' \in Nat /\ D' + V + 1 >= D
    BY <1>3, <1>4, <1>5, <1>10, SellSliceCounts
  <2>3. loss = G + SolVaultRent + 3 + R
    BY <1>10 DEF TolerableLoss
  <2>4. T' = T
    BY <1>3, <2>1, SumsKept
  <2>5. V \in Nat /\ G \in Nat /\ R \in Nat /\ out + G + 1 >= V
    BY <1>4, <2>1, <2>2, SellFillWorth DEF TradingInv
  <2>6. vault' = vault + out + S
    BY <2>1
  <2> HIDE DEF T, L, D, R, F, G, V, S, order, f, a, loss
  <2>7. (vault' + T' + L' + D') + loss >= vault + T + L + D
    <3>1. \A w, d, e, o, x, y, r \in Nat :
              o + x + 1 >= w /\ e + w + 1 >= d => o + e + (x + r + 3 + y) >= d
      OBVIOUS
    <3>2. out + D' + loss >= D
      BY <1>1, <1>4, <2>2, <2>3, <2>5, <3>1
    <3>3. loss \in Nat
      BY <1>4, <2>3, <2>5
    <3>4. \A v, t, l, d, e, o, s, x \in Nat :
              o + e + x >= d => (v + o + s + t + l + e) + x >= v + t + l + d
      OBVIOUS
    <3>5. (vault + out + S + T + L + D') + loss >= vault + T + L + D
      BY <1>1, <1>4, <2>2, <3>2, <3>3, <3>4
    <3> QED
      BY <1>6, <2>4, <2>6, <3>5
  <2>8. loss \in Nat /\ L' \in Nat
    BY <1>1, <1>4, <1>6, <2>3, <2>5
  <2>9. Nav' >= Nav - loss
    <3>1. Nav' + loss >= Nav
      BY <1>1, <1>2, <2>7
    <3>2. \A v, t, l, d \in Nat : v + t + l + d \in Nat
      OBVIOUS
    <3>3. Nav' \in Nat /\ Nav \in Nat
      BY <1>1, <1>2, <1>7, <2>2, <2>8, <3>2
    <3>4. \A x, y, r \in Nat : x + r >= y => x >= y - r
      OBVIOUS
    <3> QED
      BY <2>8, <3>1, <3>3, <3>4
  <2> QED
    BY <1>8, <2>9
<1> QED
  BY <1>3, <1>9, <1>10 DEF DcaOrder

\* Only the execution of a limit order fills it.
LEMMA LimitFilledByExecution ==
    ASSUME TradingInv, TradingNext, NEW i \in OrderIds, LimitFilled(i)
    PROVE  UNCHANGED dcaVars /\ \E out \in Outs : ExecuteLimitOrder(i, out)
<1>0. limit \in [OrderIds -> LimitOrder] /\ limit[i].status = "open" /\ limit'[i].status = "executed"
  BY DEF TradingInv, LimitInv, LimitTypeOK, LimitOrder, LimitFilled
<1>1. ASSUME NEW j \in OrderIds, j # i, NEW order, limit' = [limit EXCEPT ![j] = order] PROVE FALSE
  BY <1>0, <1>1
<1>2. CASE LimitNext /\ UNCHANGED dcaVars
  <2>1. ASSUME NEW side \in {"BUY", "SELL"}, NEW m \in Mints, NEW amount \in Amounts,
               NEW minOut \in MinOuts, NEW limitPrice \in LimitPrices,
               NEW unit \in PriceUnits, NEW expiry \in Expiries,
               CreateLimitOrder(side, m, amount, minOut, limitPrice, unit, expiry)
        PROVE  FALSE
    <3>1. /\ nextOrderId \in OrderIds /\ \E order : limit' = [limit EXCEPT ![nextOrderId] = order]
      BY <2>1 DEF CreateLimitOrder, CreateBuyLimit, CreateSellLimit, RegisterLimit
    <3>2. limit[nextOrderId].status = "none"
      BY <3>1, FundAccountsAssumption DEF TradingInv, LimitInv, LimitIdsFresh
    <3> QED
      BY <1>0, <1>1, <3>1, <3>2
  <2>2. ASSUME NEW j \in OrderIds, CancelLimitOrder(j) PROVE FALSE
    <3>1. limit' = [limit EXCEPT ![j] = NoLimit] /\ NoLimit.status = "none"
      BY <2>2 DEF CancelLimitOrder, NoLimit
    <3> QED
      BY <1>0, <1>1, <3>1
  <2>3. ASSUME NEW j \in OrderIds, NEW out \in Outs, ExecuteLimitOrder(j, out) PROVE j = i
    <3>1. \E order : limit' = [limit EXCEPT ![j] = order]
      BY <2>3 DEF ExecuteLimitOrder, ExecuteBuyLimit, ExecuteSellLimit
    <3> QED
      BY <1>1, <3>1
  <2> QED
    BY <1>2, <2>1, <2>2, <2>3 DEF LimitNext
<1> QED
  BY <1>0, <1>2 DEF TradingNext, limitVars

\* Only the execution of a slice adds to an open DCA order's history.
LEMMA DcaFilledByExecution ==
    ASSUME TradingInv, TradingNext, NEW i \in OrderIds, DcaFilled(i)
    PROVE  UNCHANGED limitVars /\ \E out \in Outs : ExecuteDcaOrder(i, out)
<1>0. /\ times \in [OrderIds -> Seq(Nat)] /\ dca[i].status = "open"
      /\ Len(times'[i]) > Len(times[i]) /\ Len(times[i]) \in Nat
  BY DEF TradingInv, DcaInv, DcaTypeOK, DcaFilled
<1>1. ASSUME NEW j \in OrderIds, j # i, NEW ts, times' = [times EXCEPT ![j] = ts] PROVE FALSE
  BY <1>0, <1>1
<1>2. CASE DcaNext /\ UNCHANGED limitVars
  <2>1. ASSUME NEW side \in {"BUY", "SELL"}, NEW m \in Mints, NEW total \in Amounts,
               NEW slice \in Amounts, NEW interval \in Intervals, NEW minOut \in MinOuts,
               NEW expiry \in Expiries,
               CreateDcaOrder(side, m, total, slice, interval, minOut, expiry)
        PROVE  FALSE
    <3>1. /\ nextOrderId \in OrderIds /\ \E ts : times' = [times EXCEPT ![nextOrderId] = ts]
      BY <2>1 DEF CreateDcaOrder, CreateBuyDca, CreateSellDca, RegisterDca
    <3>2. dca[nextOrderId].status = "none"
      BY <3>1, FundAccountsAssumption DEF TradingInv, DcaInv, DcaIdsFresh
    <3> QED
      BY <1>0, <1>1, <3>1, <3>2
  <2>2. ASSUME NEW j \in OrderIds, CancelDcaOrder(j) PROVE FALSE
    BY <1>0, <2>2 DEF CancelDcaOrder
  <2>3. ASSUME NEW j \in OrderIds, NEW out \in Outs, ExecuteDcaOrder(j, out) PROVE j = i
    <3>1. \E ts : times' = [times EXCEPT ![j] = ts]
      BY <2>3 DEF ExecuteDcaOrder
    <3> QED
      BY <1>1, <3>1
  <2> QED
    BY <1>2, <2>1, <2>2, <2>3 DEF DcaNext
<1> QED
  BY <1>0, <1>2 DEF TradingNext, dcaVars

\* Whatever min_out a manager names and whatever the market returns, a fill costs the fund
\* no more than the configured slippage, the rent that stays in an order's SOL vault and
\* the roundings, at any prices.
THEOREM FillLossBoundedHolds == TradingSpec => FillLossBounded
<1> DEFINE Bounded(i) ==
               AllPriced /\ AllPriced' =>
                   /\ LimitFilled(i) => Nav' >= Nav - TolerableLoss(limit[i], limit[i].amountIn)
                   /\ DcaFilled(i) => Nav' >= Nav - TolerableLoss(dca[i], SliceOf(dca[i]))
<1>1. ASSUME TradingInv, TradingNext, NEW i \in OrderIds PROVE Bounded(i)
  <2>1. ASSUME AllPriced PROVE SellMints \subseteq Listed /\ TradingInv'
    BY <1>1, <2>1, TradingNextKeeps DEF AllPriced
  <2>2. ASSUME AllPriced, LimitFilled(i)
        PROVE  Nav' >= Nav - TolerableLoss(limit[i], limit[i].amountIn)
    BY <1>1, <2>1, <2>2, LimitFilledByExecution, LimitFillBounded
  <2>3. ASSUME AllPriced, DcaFilled(i)
        PROVE  Nav' >= Nav - TolerableLoss(dca[i], SliceOf(dca[i]))
    BY <1>1, <2>1, <2>3, DcaFilledByExecution, DcaFillBounded
  <2> QED
    BY <2>2, <2>3
<1>2. TradingInv /\ [TradingNext]_tradingVars => [\A i \in OrderIds : Bounded(i)]_tradingVars
  BY <1>1
<1> QED
  BY <1>2, TradingInvariant, PTL DEF TradingSpec, FillLossBounded

-----------------------------------------------------------------------------
(* A fund with investors.                                                  *)

\* The invariant of a fund with both sides: before initialize_fund there is nothing to
\* value, and the vault never holds some lamports and less than its rent.  The ledger's
\* numbers are typed as far as they reach the vault.
InvestedInv ==
    /\ TradingInv
    /\ RentExempt(vault)
    /\ timelock \in Nat \cup {-1}
    /\ timelock = -1 => /\ vault = 0 /\ totalShares = 0 /\ shown = {}
                        /\ Listed = {} /\ OpenLimits = {} /\ OpenDcas = {}
    /\ totalShares \in Nat
    /\ \A i \in Investors : request[i].shares \in Nat
    /\ DOMAIN request = Investors

\* What a NAV computation may be given is worth a natural number of lamports.
LEMMA NavOfNat ==
    ASSUME TradingInv, NEW mints \in SUBSET Listed, SellMints \subseteq mints
    PROVE  /\ ValuesOf(mints) \in [mints -> Nat] /\ IsFiniteSet(mints)
           /\ SumFunction(ValuesOf(mints)) \in Nat
           /\ SumFunction(LimitValues) \in Nat
           /\ SumFunction(DcaValues) \in Nat
           /\ vault \in Nat
<1>1. SellMints \subseteq Listed
  OBVIOUS
<1>2. IsFiniteSet(mints) /\ TokenValues \in [Listed -> Nat]
  BY <1>1, SummandsNat, FS_Subset
<1>3. ValuesOf(mints) \in [mints -> Nat]
  BY <1>2 DEF TokenValues, ValuesOf
<1> QED
  BY <1>1, <1>2, <1>3, SumsNat, SumFunctionNat

\* What Shares calls assets is a natural number, or there is none.
LEMMA AssetsNat ==
    TradingInv => /\ Assets \in Nat \cup {-1}
                  /\ Assets # -1 => Acceptable(shown) /\ Assets \in Nat
<1> SUFFICES ASSUME TradingInv, Acceptable(shown) PROVE Assets \in Nat
  BY DEF Assets, NoAssets
<1>1. shown \in SUBSET Listed /\ SellMints \subseteq shown
  BY DEF Acceptable
<1> DEFINE x == SumFunction(ValuesOf(shown))
           y == SumFunction(LimitValues)
           z == SumFunction(DcaValues)
<1>2. x \in Nat /\ y \in Nat /\ z \in Nat /\ vault \in Nat
  BY <1>1, NavOfNat
<1>3. NavOf(shown) = vault + x + y + z
  BY DEF NavOf
<1>4. Assets = NavOf(shown) - vault
  BY DEF Assets
<1> HIDE DEF x, y, z
<1> QED
  BY <1>2, <1>3, <1>4

\* The same after a step.
LEMMA AssetsNatAfter == (TradingInv => Assets \in Nat \cup {-1})'
  BY AssetsNat, PTL

\* Without listings and orders there is nothing to value.
LEMMA NothingToValue ==
    TradingInv /\ Listed = {} /\ shown = {} /\ OpenLimits = {} /\ OpenDcas = {} => Assets = 0
<1> SUFFICES ASSUME TradingInv, Listed = {}, shown = {}, OpenLimits = {}, OpenDcas = {}
             PROVE  Assets = 0
  OBVIOUS
<1>1. /\ ValuesOf(shown) \in [{} -> Nat] /\ LimitValues \in [{} -> Nat]
      /\ DcaValues \in [{} -> Nat]
  BY DEF ValuesOf, LimitValues, DcaValues
<1>2. SumFunction(ValuesOf(shown)) = 0 /\ SumFunction(LimitValues) = 0 /\ SumFunction(DcaValues) = 0
  BY <1>1, SumZero, FS_EmptySet
<1>3. vault \in Nat
  BY DEF TradingInv, FundInv, FundTypeOK
<1>4. Acceptable(shown)
  <2>1. Cardinality({}) = 0
    BY FS_EmptySet
  <2>2. enabledCount = 0 /\ activeLimit = 0 /\ activeDca = 0
    BY <2>1 DEF TradingInv, FundInv, FundTypeOK, CountWithinListed, LimitInv, LimitCountExact,
                DcaInv, DcaCountExact
  <2>3. SellMints = {}
    BY DEF SellMints
  <2> QED
    BY <2>1, <2>2, <2>3 DEF Acceptable
<1> QED
  BY <1>2, <1>3, <1>4 DEF Assets, NavOf

\* The same after a step.
LEMMA NothingToValueAfter ==
    (TradingInv /\ Listed = {} /\ shown = {} /\ OpenLimits = {} /\ OpenDcas = {}
        => Assets = 0)'
  BY NothingToValue, PTL

\* What the accounts shown are worth depends on nothing else.
LEMMA AssetsKept ==
    ASSUME UNCHANGED <<vault, tokens, listed, enabledCount, price, solPrice, limitVars, dcaVars,
                       shown>>
    PROVE  Assets' = Assets
<1>1. PricesKept /\ limit' = limit /\ dca' = dca /\ activeLimit' = activeLimit
      /\ activeDca' = activeDca /\ tokens' = tokens /\ vault' = vault
      /\ enabledCount' = enabledCount /\ listed' = listed /\ shown' = shown
  BY DEF PricesKept, limitVars, dcaVars
<1>2. LimitValues' = LimitValues /\ DcaValues' = DcaValues
  BY <1>1, SumsKept
<1>3. ValuesOf(shown)' = ValuesOf(shown)
  BY <1>1 DEF PricesKept, ValuesOf, LamportsFor
<1>4. Listed' = Listed /\ OpenLimits' = OpenLimits /\ OpenDcas' = OpenDcas
  BY <1>1 DEF Listed, OpenLimits, OpenDcas
<1>5. SellMints' = SellMints
  BY <1>1, <1>4 DEF SellMints
<1>6. Acceptable(shown)' = Acceptable(shown)
  BY <1>1, <1>4, <1>5 DEF Acceptable
<1>7. NavOf(shown)' = NavOf(shown)
  BY <1>1, <1>2, <1>3 DEF NavOf
<1> QED
  BY <1>1, <1>6, <1>7 DEF Assets

\* initialize_fund has no fund to trade with before it.
LEMMA InvestedInitHolds == InvestedInit => InvestedInv /\ Ledger!Init
<1> SUFFICES ASSUME InvestedInit PROVE InvestedInv /\ Ledger!Init
  OBVIOUS
<1>1. TradingInv
  BY FundInvInit, LimitInitHolds, DcaInitHolds DEF InvestedInit, TradingInv
<1>2. Listed = {}
  BY DEF InvestedInit, NothingHeld, Listed
<1>3. OpenLimits = {} /\ OpenDcas = {}
  BY DEF InvestedInit, LimitInit, NoLimit, OpenLimits, DcaInit, NoDca, OpenDcas
<1>4. Assets = 0
  BY <1>1, <1>2, <1>3, NothingToValue DEF InvestedInit
<1>5. InvestedInv
  BY <1>1, <1>2, <1>3 DEF InvestedInit, InvestedInv, RentExempt, Ledger!NoFund, Ledger!NoRequest
<1>6. Ledger!Init
  BY <1>4 DEF InvestedInit, NothingHeld, Ledger!Init
<1> QED
  BY <1>5, <1>6

\* What a trading step does to the clock and to the vault: it needs a live vault to move
\* lamports, and leaves it with its rent.
LEMMA TradingMovesVault ==
    ASSUME TradingInv, RentExempt(vault), TradingNext
    PROVE  \/ /\ now < MaxTime /\ now' = now + 1
              /\ UNCHANGED <<vault, tokens, listed, enabledCount, price, solPrice, limitVars, dcaVars>>
           \/ now' = now /\ vault' = vault
           \/ now' = now /\ VaultAlive /\ RentExempt(vault')
<1>0. /\ vault \in Nat /\ VaultRent \in Nat \ {0} /\ TokenAccountRent \in Nat /\ OrderRent \in Nat
      /\ limit \in [OrderIds -> LimitOrder] /\ dca \in [OrderIds -> DcaOrder] /\ Outs \subseteq Nat
  BY FundAccountsAssumption DEF TradingInv, FundInv, FundTypeOK, LimitInv, LimitTypeOK,
     LimitOrder, DcaInv, DcaTypeOK, DcaOrder
<1>1. ASSUME NEW more \in Nat, VaultAlive, vault' = vault + more PROVE RentExempt(vault')
  BY <1>0, <1>1 DEF VaultAlive, RentExempt
<1>2. CASE FundNext /\ UNCHANGED <<limitVars, dcaVars>>
  BY <1>2 DEF FundNext, AddGlobal, RemoveGlobal, AddFund, RemoveFund, RemoveOther, Swap,
     PriceMoves, SolPriceMoves, Tick, holdings, whitelists, oracle
<1>3. CASE LimitNext
  <2>1. ASSUME NEW side \in {"BUY", "SELL"}, NEW m \in Mints, NEW amount \in Amounts,
               NEW minOut \in MinOuts, NEW limitPrice \in LimitPrices,
               NEW unit \in PriceUnits, NEW expiry \in Expiries,
               CreateLimitOrder(side, m, amount, minOut, limitPrice, unit, expiry)
        PROVE  now' = now /\ (vault' = vault \/ (VaultAlive /\ RentExempt(vault')))
    BY <2>1 DEF CreateLimitOrder, CreateBuyLimit, CreateSellLimit, RegisterLimit
  <2>2. ASSUME NEW i \in OrderIds, NEW out \in Outs, ExecuteLimitOrder(i, out)
        PROVE  now' = now /\ VaultAlive /\ RentExempt(vault')
    <3>1. now' = now /\ VaultAlive
      BY <2>2 DEF ExecuteLimitOrder, ExecuteBuyLimit, ExecuteSellLimit, LimitExecutable
    <3>2. vault' = vault + TokenAccountRent \/ vault' = vault + (out + TokenAccountRent)
      BY <1>0, <2>2 DEF ExecuteLimitOrder, ExecuteBuyLimit, ExecuteSellLimit
    <3>3. out + TokenAccountRent \in Nat
      BY <1>0
    <3> QED
      BY <1>0, <1>1, <3>1, <3>2, <3>3
  <2>3. ASSUME NEW i \in OrderIds, CancelLimitOrder(i)
        PROVE  now' = now /\ VaultAlive /\ RentExempt(vault')
    <3>1. now' = now /\ VaultAlive
      BY <2>3 DEF CancelLimitOrder
    <3>2. limit[i].sol \in Nat
      BY <1>0 DEF LimitOrder
    <3>3. \/ vault' = vault + (limit[i].sol + TokenAccountRent + OrderRent)
          \/ vault' = vault + (TokenAccountRent + OrderRent)
      BY <1>0, <2>3, <3>2 DEF CancelLimitOrder, CancelBuyLimit, CancelSellLimit
    <3>4. limit[i].sol + TokenAccountRent + OrderRent \in Nat /\ TokenAccountRent + OrderRent \in Nat
      BY <1>0, <3>2
    <3> QED
      BY <1>1, <3>1, <3>3, <3>4
  <2> QED
    BY <1>3, <2>1, <2>2, <2>3 DEF LimitNext
<1>4. CASE DcaNext
  <2>1. ASSUME NEW side \in {"BUY", "SELL"}, NEW m \in Mints, NEW total \in Amounts,
               NEW slice \in Amounts, NEW interval \in Intervals, NEW minOut \in MinOuts,
               NEW expiry \in Expiries,
               CreateDcaOrder(side, m, total, slice, interval, minOut, expiry)
        PROVE  now' = now /\ (vault' = vault \/ (VaultAlive /\ RentExempt(vault')))
    BY <2>1 DEF CreateDcaOrder, CreateBuyDca, CreateSellDca, RegisterDca
  <2>2. ASSUME NEW i \in OrderIds, NEW out \in Outs, ExecuteDcaOrder(i, out)
        PROVE  now' = now /\ VaultAlive /\ RentExempt(vault')
    <3>1. now' = now /\ VaultAlive /\ dca[i].status = "open" /\ SliceOf(dca[i]) > 0
      BY <2>2 DEF ExecuteDcaOrder, DcaExecutable
    <3>2. PICK after : /\ SliceTaken(dca[i], after)
                       /\ \/ vault' = vault + Swept(after)
                          \/ vault' = vault + out + Swept(after)
      BY <2>2, ExecuteSettles DEF TradingInv
    <3>3. Swept(after) \in Nat /\ out \in Nat
      <4>1. HoldsRest(dca[i]) /\ dca[i] \in DcaOrder
        BY <1>0, EscrowByOrder DEF TradingInv, DcaInv
      <4> QED
        BY <1>0, <3>1, <3>2, <4>1, SettledHoldsRest
    <3> DEFINE s == Swept(after)
    <3>4. vault' = vault + s \/ vault' = vault + out + s
      BY <3>2
    <3>5. s \in Nat
      BY <3>3
    <3> HIDE DEF s
    <3>6. vault' = vault + s \/ vault' = vault + (out + s)
      BY <1>0, <3>3, <3>4, <3>5
    <3>7. out + s \in Nat
      BY <3>3, <3>5
    <3> QED
      BY <1>1, <3>1, <3>5, <3>6, <3>7
  <2>3. ASSUME NEW i \in OrderIds, CancelDcaOrder(i)
        PROVE  now' = now /\ VaultAlive /\ RentExempt(vault')
    <3>1. now' = now /\ VaultAlive
      BY <2>3 DEF CancelDcaOrder
    <3>2. dca[i].sol \in Nat
      BY <1>0 DEF DcaOrder
    <3>3. vault' = vault + (dca[i].sol + TokenAccountRent) \/ vault' = vault + TokenAccountRent
      BY <1>0, <2>3, <3>2 DEF CancelDcaOrder, CancelBuyDca, CancelSellDca
    <3>4. dca[i].sol + TokenAccountRent \in Nat
      BY <1>0, <3>2
    <3> QED
      BY <1>0, <1>1, <3>1, <3>3, <3>4
  <2> QED
    BY <1>4, <2>1, <2>2, <2>3 DEF DcaNext
<1> QED
  BY <1>2, <1>3, <1>4 DEF TradingNext

\* Trading may leave any number of lamports in the vault, and any value elsewhere.
AnyPortfolio == VaultBalances = Nat /\ AssetValues = Nat

\* What a step of the ledger's environment may make of the assets is covered by Shares.
LEMMA AnyAssets ==
    ASSUME TradingInv', AnyPortfolio
    PROVE  vault' \in VaultBalances /\ Assets' \in AssetValues \cup {Ledger!NoValue}
  BY AssetsNatAfter DEF AnyPortfolio, Ledger!NoValue, TradingInv, FundInv, FundTypeOK

\* A step of the trading side keeps the invariant, and Shares has it: the clock, a portfolio
\* move, a revaluation, or nothing at all.
LEMMA TradingIsPortfolio ==
    ASSUME InvestedInv, InvestedTrading
    PROVE  InvestedInv' /\ (AnyPortfolio => [Ledger!Next]_(Ledger!vars))
<1>1. TradingInv /\ TradingNext /\ RentExempt(vault) /\ TradingInv'
  BY TradingNextKeeps DEF InvestedInv, InvestedTrading
<1>2. UNCHANGED <<timelock, totalShares, supply, held, request, treasury, wallet, lastPaid,
                  shown>>
  BY DEF InvestedTrading, ledgerVars
<1>4. RentExempt(vault')
  BY <1>1, TradingMovesVault
<1>5. ASSUME timelock = -1
      PROVE  /\ vault' = 0 /\ Listed' = {} /\ OpenLimits' = {} /\ OpenDcas' = {}
             /\ Assets' = Assets
  <2>1. vault = 0 /\ Listed = {} /\ OpenLimits = {} /\ OpenDcas = {} /\ shown = {}
    BY <1>5 DEF InvestedInv
  <2>2. vault' = 0
    BY <1>1, <2>1, TradingMovesVault DEF VaultAlive
  <2>3. listed' = listed /\ Listed' = {}
    BY <1>5, <2>1 DEF InvestedTrading, Listed, Ledger!FundExists, Ledger!NoFund
  <2>4. \A i \in OrderIds : limit'[i].status # "open" /\ dca'[i].status # "open"
    BY <1>1, <2>1, <2>3, OpenLimitsKnown, OpenDcasKnown DEF OpenLimits, OpenDcas
  <2>5. OpenLimits' = {} /\ OpenDcas' = {}
    BY <2>4 DEF OpenLimits, OpenDcas
  <2>6. Assets = 0 /\ Assets' = 0
    BY <1>1, <1>2, <2>1, <2>3, <2>5, NothingToValue, NothingToValueAfter
  <2> QED
    BY <2>2, <2>3, <2>5, <2>6
<1>6. InvestedInv'
  BY <1>1, <1>2, <1>4, <1>5 DEF InvestedInv
<1>7. ASSUME AnyPortfolio PROVE [Ledger!Next]_(Ledger!vars)
  <2>1. CASE /\ now < MaxTime /\ now' = now + 1
             /\ UNCHANGED <<vault, tokens, listed, enabledCount, price, solPrice, limitVars, dcaVars>>
    <3>1. Assets' = Assets
      BY <1>2, <2>1, AssetsKept
    <3>2. Ledger!Tick
      BY <1>2, <2>1, <3>1 DEF Ledger!Tick, Ledger!ledger, Ledger!money
    <3> QED
      BY <3>2 DEF Ledger!Next
  <2>2. CASE now' = now /\ timelock = -1
    <3>1. Assets' = Assets /\ vault' = vault
      BY <1>5, <2>2 DEF InvestedInv
    <3>2. UNCHANGED Ledger!vars
      BY <1>2, <2>2, <3>1 DEF Ledger!vars, Ledger!ledger, Ledger!money
    <3> QED
      BY <3>2
  <2>3. CASE now' = now /\ vault' = vault /\ timelock # -1
    <3>1. Ledger!AssetsRevalued(Assets')
      BY <1>2, <2>3 DEF Ledger!AssetsRevalued, Ledger!FundExists, Ledger!NoFund, Ledger!ledger
    <3>2. \E value \in AssetValues \cup {Ledger!NoValue} : Ledger!AssetsRevalued(value)
      BY <1>1, <1>7, <3>1, AnyAssets
    <3> QED
      BY <3>2 DEF Ledger!Next
  <2>4. CASE now' = now /\ VaultAlive /\ RentExempt(vault') /\ timelock # -1
    <3>1. Ledger!PortfolioMoves(vault', Assets')
      BY <1>2, <2>4 DEF Ledger!PortfolioMoves, Ledger!FundExists, Ledger!NoFund, Ledger!ledger,
         Ledger!VaultAlive, VaultAlive, Ledger!RentExempt, RentExempt
    <3>2. \E lamports \in VaultBalances, value \in AssetValues \cup {Ledger!NoValue} :
              Ledger!PortfolioMoves(lamports, value)
      BY <1>1, <1>7, <3>1, AnyAssets
    <3> QED
      BY <3>2 DEF Ledger!Next
  <2> QED
    BY <1>1, <2>1, <2>2, <2>3, <2>4, TradingMovesVault
<1> QED
  BY <1>6, <1>7

\* A caller who assembles accounts changes the value that the ledger sees, no more.
LEMMA ChoiceRevalues ==
    ASSUME InvestedInv, NEW mints \in SUBSET Mints, ChooseAccounts(mints)
    PROVE  InvestedInv' /\ (AnyPortfolio => Ledger!Next) /\ totalShares' = totalShares
<1>1. UNCHANGED tradingVars /\ UNCHANGED ledgerVars /\ timelock # -1
  BY DEF ChooseAccounts, Ledger!FundExists, Ledger!NoFund
<1>2. UNCHANGED tradeVars /\ now' = now /\ vault' = vault /\ vault \in Nat
  BY <1>1 DEF tradingVars, fundVars, holdings, tradeVars, InvestedInv, TradingInv, FundInv,
              FundTypeOK
<1>3. TradingInv'
  BY <1>2, OthersKeepTrading DEF InvestedInv
<1>4. InvestedInv'
  BY <1>1, <1>2, <1>3 DEF InvestedInv, ledgerVars
<1>5. ASSUME AnyPortfolio PROVE Ledger!Next
  <2>1. Ledger!AssetsRevalued(Assets')
    BY <1>1, <1>2 DEF Ledger!AssetsRevalued, Ledger!FundExists, Ledger!NoFund, Ledger!ledger,
                      ledgerVars
  <2>2. \E value \in AssetValues \cup {Ledger!NoValue} : Ledger!AssetsRevalued(value)
    BY <1>3, <1>5, <2>1, AnyAssets
  <2> QED
    BY <2>2 DEF Ledger!Next
<1> QED
  BY <1>1, <1>4, <1>5 DEF ledgerVars

\* The ledger's arithmetic is the fund's.
LEMMA LedgerFee ==
    ASSUME NEW a \in Nat, NEW b \in 0 .. BpsDenominator
    PROVE  Ledger!FeeOf(a, b) \in Nat /\ Ledger!FeeOf(a, b) <= a
<1>1. Ledger!FeeOf(a, b) = FeeOf(a, b)
  BY DEF Ledger!FeeOf, FeeOf, Ledger!BpsDenominator, BpsDenominator
<1> QED
  BY <1>1, FeeInAmount

\* A step of the ledger leaves the trading side alone; what it makes of the vault keeps the
\* invariant.
LEMMA LedgerStepKeeps ==
    ASSUME InvestedInv, UNCHANGED <<tradeVars, shown>>, now' = now, vault' \in Nat,
           RentExempt(vault'), timelock' \in Nat \cup {-1},
           timelock' = -1 => timelock = -1 /\ vault' = vault /\ totalShares' = totalShares,
           totalShares' \in Nat, \A i \in Investors : request'[i].shares \in Nat,
           DOMAIN request' = Investors
    PROVE  InvestedInv'
<1>1. TradingInv'
  BY OthersKeepTrading DEF InvestedInv
<1>2. Listed' = Listed /\ OpenLimits' = OpenLimits /\ OpenDcas' = OpenDcas
  BY DEF tradeVars, whitelists, limitVars, dcaVars, Listed, OpenLimits, OpenDcas
<1> QED
  BY <1>1, <1>2 DEF InvestedInv

\* initialize_fund.
LEMMA InitializeKeeps ==
    ASSUME InvestedInv, NEW deposit \in DepositAmounts, NEW lock \in MinTimelock .. MaxTimelock,
           InvestedInitializeFund(deposit, lock)
    PROVE  InvestedInv'
<1> DEFINE fee == Ledger!FeeOf(deposit, DepositFeeBps)
           net == deposit - fee
<1>1. /\ UNCHANGED <<tradeVars, shown>> /\ now' = now /\ timelock' = lock /\ net > 0
      /\ totalShares' = totalShares + net /\ vault' = VaultRent + net /\ request' = request
  BY DEF InvestedInitializeFund, Ledger!InitializeFund, Ledger!Mint
<1>2. deposit \in Nat /\ VaultRent \in Nat \ {0} /\ lock \in Nat
      /\ DepositFeeBps \in 0 .. BpsDenominator
  BY FundAccountsAssumption, InvestedFundAssumption
<1>3. fee \in Nat /\ fee <= deposit
  BY <1>2, LedgerFee
<1> HIDE DEF fee
<1>4. net \in Nat
  BY <1>2, <1>3
<1> HIDE DEF net
<1>5. vault' \in Nat /\ RentExempt(vault') /\ totalShares' \in Nat
  BY <1>1, <1>2, <1>4 DEF RentExempt, InvestedInv
<1> QED
  BY <1>1, <1>2, <1>5, LedgerStepKeeps DEF InvestedInv

\* deposit.
LEMMA DepositKeeps ==
    ASSUME InvestedInv, NEW i \in Investors, NEW amount \in DepositAmounts,
           InvestedDeposit(i, amount)
    PROVE  /\ InvestedInv' /\ totalShares' > 0 /\ Acceptable(shown) /\ UNCHANGED tradeVars
           /\ \E net \in Nat, minted \in Nat :
                  /\ vault' = vault + net /\ totalShares' = totalShares + minted
                  /\ minted * (vault + Assets) <= net * totalShares
<1> DEFINE fee == Ledger!FeeOf(amount, DepositFeeBps)
           net == amount - fee
           minted == Ledger!SharesToMint(net, totalShares, Ledger!Nav)
<1>1. /\ UNCHANGED <<tradeVars, shown>> /\ now' = now /\ timelock' = timelock /\ timelock # -1
      /\ vault > 0 /\ Ledger!Nav > 0 /\ minted > 0 /\ Assets # -1
      /\ totalShares' = totalShares + minted /\ vault' = vault + net /\ request' = request
  BY DEF InvestedDeposit, Ledger!Deposit, Ledger!Mint, Ledger!VaultAlive, Ledger!FundExists,
         Ledger!NoFund, Ledger!NavReadable, Ledger!NoValue
<1>2. amount \in Nat /\ VaultRent \in Nat \ {0} /\ DepositFeeBps \in 0 .. BpsDenominator
      /\ totalShares \in Nat /\ vault \in Nat
  BY FundAccountsAssumption, InvestedFundAssumption DEF InvestedInv, TradingInv, FundInv, FundTypeOK
<1>3. fee \in Nat /\ fee <= amount
  BY <1>2, LedgerFee
<1> HIDE DEF fee
<1>4. net \in Nat
  BY <1>2, <1>3
<1>5. Ledger!Nav \in Nat \ {0} /\ Acceptable(shown) /\ Ledger!Nav = vault + Assets
  <2>1. Assets \in Nat /\ Acceptable(shown)
    BY <1>1, AssetsNat DEF InvestedInv
  <2>2. Ledger!Nav \in Nat
    BY <1>2, <2>1 DEF Ledger!Nav
  <2> QED
    BY <1>1, <2>1, <2>2 DEF Ledger!Nav
<1> HIDE DEF net
<1>6. minted \in Nat /\ minted * Ledger!Nav <= net * totalShares
  <2>1. minted = (net * totalShares) \div Ledger!Nav /\ net * totalShares \in Nat
    BY <1>2, <1>4 DEF Ledger!SharesToMint
  <2> HIDE DEF minted
  <2> QED
    BY <1>5, <2>1, DivisionRoundsDown
<1> HIDE DEF minted
<1>7. vault' \in Nat /\ RentExempt(vault') /\ totalShares' \in Nat /\ totalShares' > 0
  BY <1>1, <1>2, <1>4, <1>6 DEF RentExempt, InvestedInv
<1>8. InvestedInv'
  BY <1>1, <1>7, LedgerStepKeeps DEF InvestedInv
<1> QED
  BY <1>1, <1>4, <1>5, <1>6, <1>7, <1>8

\* All shares are worth all of it.
LEMMA DividesOut ==
    ASSUME NEW s \in Nat \ {0}, NEW n \in Nat PROVE (s * n) \div s = n
<1>1. s * n \in Nat
  OBVIOUS
<1> DEFINE q == (s * n) \div s
<1>2. q \in Nat /\ q * s <= s * n /\ s * n < q * s + s
  BY <1>1, DivisionRoundsDown
<1> HIDE DEF q
<1>3. q * s < (n + 1) * s /\ n * s < (q + 1) * s
  BY <1>2
<1>4. q < n + 1 /\ n < q + 1
  BY <1>2, <1>3, FactorCancels
<1> QED
  BY <1>2, <1>4 DEF q

\* execute_withdraw; the payout of the last share leaves nothing of value.
LEMMA WithdrawKeeps ==
    ASSUME InvestedInv, NEW i \in Investors, InvestedExecuteWithdraw(i)
    PROVE  /\ InvestedInv' /\ Acceptable(shown) /\ UNCHANGED tradeVars
           /\ totalShares' = 0 => Assets = 0
           /\ \E gross \in Nat, shares \in Nat :
                  /\ vault' = vault - gross /\ totalShares' = totalShares - shares
                  /\ gross * totalShares <= shares * (vault + Assets)
<1> DEFINE shares == request[i].shares
           nav == Ledger!Nav
           gross == Ledger!GrossPayout(shares, nav, totalShares)
<1>1. /\ UNCHANGED <<tradeVars, shown>> /\ now' = now /\ timelock' = timelock /\ timelock # -1
      /\ totalShares > 0 /\ totalShares >= shares /\ nav > 0 /\ vault >= gross
      /\ totalShares' = totalShares - shares /\ vault' = vault - gross
      /\ request' = [request EXCEPT ![i] = Ledger!NoRequest] /\ Assets # -1
  BY DEF InvestedExecuteWithdraw, Ledger!ExecuteWithdraw, Ledger!VaultAlive, Ledger!FundExists,
         Ledger!NoFund, Ledger!SharesCounted, Ledger!NavReadable, Ledger!NoValue
<1>2. RentExempt(vault')
  BY DEF InvestedExecuteWithdraw, Ledger!ExecuteWithdraw, Ledger!RentExempt, RentExempt
<1>3. shares \in Nat /\ totalShares \in Nat /\ vault \in Nat /\ DOMAIN request = Investors
  BY DEF InvestedInv, TradingInv, FundInv, FundTypeOK
<1>4. Assets \in Nat /\ Acceptable(shown) /\ nav = vault + Assets /\ nav \in Nat
  BY <1>1, <1>3, AssetsNat DEF InvestedInv, Ledger!Nav
<1>5. gross = (shares * nav) \div totalShares
  BY DEF Ledger!GrossPayout
<1>6. \A j \in Investors : request'[j].shares \in Nat
  BY <1>1, <1>3 DEF InvestedInv, Ledger!NoRequest
<1>7. DOMAIN request' = Investors
  BY <1>1, <1>3
<1> HIDE DEF gross, nav, shares
<1>8. gross \in Nat /\ gross * totalShares <= shares * nav
  <2>1. shares * nav \in Nat
    BY <1>3, <1>4
  <2> QED
    BY <1>1, <1>3, <1>5, <2>1, DivisionRoundsDown
<1>9. vault' \in Nat /\ totalShares' \in Nat
  BY <1>1, <1>3, <1>8
<1>10. ASSUME totalShares' = 0 PROVE Assets = 0
  <2>1. shares = totalShares
    BY <1>1, <1>3, <1>10
  <2>2. (totalShares * nav) \div totalShares = nav
    BY <1>1, <1>3, <1>4, DividesOut
  <2> QED
    BY <1>1, <1>3, <1>4, <1>5, <2>1, <2>2
<1>11. InvestedInv'
  BY <1>1, <1>2, <1>6, <1>7, <1>9, LedgerStepKeeps DEF InvestedInv
<1> QED
  BY <1>1, <1>3, <1>4, <1>8, <1>10, <1>11

\* request_withdraw and cancel_withdraw.
LEMMA RequestsKeep ==
    ASSUME InvestedInv, NEW i \in Investors, InvestedRequests(i)
    PROVE  InvestedInv' /\ totalShares' = totalShares
<1>1. /\ UNCHANGED <<tradeVars, shown>> /\ now' = now /\ timelock' = timelock
      /\ totalShares' = totalShares /\ vault' = vault
  BY DEF InvestedRequests, Ledger!RequestWithdraw, Ledger!CancelWithdraw, Ledger!ledger
<1>2. \E account : account.shares \in Nat /\ request' = [request EXCEPT ![i] = account]
  <2>1. ASSUME NEW shares \in 1 .. totalShares, Ledger!RequestWithdraw(i, shares)
        PROVE  \E account : account.shares \in Nat /\ request' = [request EXCEPT ![i] = account]
    <3>1. request' = [request EXCEPT ![i] = [shares |-> shares, ts |-> now]]
      BY <2>1 DEF Ledger!RequestWithdraw
    <3>2. [shares |-> shares, ts |-> now].shares \in Nat
      BY DEF InvestedInv
    <3> QED
      BY <3>1, <3>2
  <2>2. ASSUME Ledger!CancelWithdraw(i)
        PROVE  \E account : account.shares \in Nat /\ request' = [request EXCEPT ![i] = account]
    <3>1. request' = [request EXCEPT ![i] = Ledger!NoRequest]
      BY <2>2 DEF Ledger!CancelWithdraw
    <3>2. Ledger!NoRequest.shares \in Nat
      BY DEF Ledger!NoRequest
    <3> QED
      BY <3>1, <3>2
  <2> QED
    BY <2>1, <2>2 DEF InvestedRequests
<1>3. (\A j \in Investors : request'[j].shares \in Nat) /\ DOMAIN request' = Investors
  BY <1>2 DEF InvestedInv
<1> QED
  BY <1>1, <1>3, LedgerStepKeeps DEF InvestedInv, TradingInv, FundInv, FundTypeOK

\* Every step keeps the invariant and is one that Shares allows.
LEMMA InvestedStep ==
    ASSUME InvestedInv, [InvestedNext]_investedVars
    PROVE  InvestedInv' /\ (AnyPortfolio => [Ledger!Next]_(Ledger!vars))
<1>1. CASE UNCHANGED investedVars
  <2>1. /\ UNCHANGED <<tradeVars, shown>> /\ UNCHANGED ledgerVars
        /\ now' = now /\ vault' = vault
    BY <1>1 DEF investedVars, tradingVars, fundVars, holdings, tradeVars
  <2>2. InvestedInv'
    BY <2>1, LedgerStepKeeps DEF InvestedInv, ledgerVars, TradingInv, FundInv, FundTypeOK
  <2>3. Assets' = Assets
    BY <2>1, AssetsKept DEF tradeVars, whitelists, oracle
  <2>4. UNCHANGED Ledger!vars
    BY <2>1, <2>3 DEF Ledger!vars, Ledger!ledger, Ledger!money, ledgerVars
  <2> QED
    BY <2>2, <2>4
<1>2. ASSUME NEW deposit \in DepositAmounts, NEW lock \in MinTimelock .. MaxTimelock,
             InvestedInitializeFund(deposit, lock)
      PROVE  InvestedInv' /\ Ledger!Next
  BY <1>2, InitializeKeeps DEF InvestedInitializeFund, Ledger!Next
<1>3. ASSUME NEW i \in Investors, NEW amount \in DepositAmounts, InvestedDeposit(i, amount)
      PROVE  InvestedInv' /\ Ledger!Next
  BY <1>3, DepositKeeps DEF InvestedDeposit, Ledger!Next
<1>4. ASSUME NEW i \in Investors, InvestedExecuteWithdraw(i) PROVE InvestedInv' /\ Ledger!Next
  BY <1>4, WithdrawKeeps DEF InvestedExecuteWithdraw, Ledger!Next
<1>5. ASSUME NEW i \in Investors, InvestedRequests(i) PROVE InvestedInv' /\ Ledger!Next
  BY <1>5, RequestsKeep DEF InvestedRequests, Ledger!Next
<1>6. CASE InvestedTrading
  BY <1>6, TradingIsPortfolio
<1>7. ASSUME NEW mints \in SUBSET Mints, ChooseAccounts(mints)
      PROVE  InvestedInv' /\ (AnyPortfolio => Ledger!Next)
  BY <1>7, ChoiceRevalues
<1> QED
  BY <1>1, <1>2, <1>3, <1>4, <1>5, <1>6, <1>7 DEF InvestedNext

\* The invariant holds for every run of the fund.
LEMMA InvestedInvariant == InvestedSpec => []InvestedInv
<1>1. InvestedInit => InvestedInv
  BY InvestedInitHolds
<1>2. InvestedInv /\ [InvestedNext]_investedVars => InvestedInv'
  BY InvestedStep
<1> QED
  BY <1>1, <1>2, PTL DEF InvestedSpec

\* Deposits and withdrawals between the orders leave the books in step too: shares are only
\* ever priced on order counters and escrows that agree with the orders behind them, and on
\* no more listings than there are.
THEOREM BooksExactUnderInvestors ==
    InvestedSpec => [](/\ CountWithinListed /\ LimitCountExact /\ DcaCountExact
                       /\ LimitEscrowExact /\ DcaEscrowExact)
<1>1. InvestedInv => TradingInv
  BY DEF InvestedInv
<1> QED
  BY <1>1, InvestedInvariant, BooksExact, PTL

\* Seen by its investors, a fund with orders is a share ledger: if trading may leave any
\* number of lamports in the vault and any value elsewhere, then every instruction, fill,
\* listing and price change is a step of Shares, or changes nothing an investor sees.
THEOREM FundImplementsShares ==
    ASSUME AnyPortfolio PROVE InvestedSpec => ImplementsShares
<1>1. InvestedInit => Ledger!Init
  BY InvestedInitHolds
<1>2. InvestedInv /\ [InvestedNext]_investedVars => [Ledger!Next]_(Ledger!vars)
  BY InvestedStep
<1> QED
  BY <1>1, <1>2, InvestedInvariant, PTL DEF InvestedSpec, ImplementsShares, Ledger!Spec

\* While the count is exact, the accounts shown are those of all listings.
LEMMA WholeFundShown ==
    ASSUME TradingInv, Acceptable(shown), enabledCount = Cardinality(Listed)
    PROVE  shown = Listed
<1>1. shown \in SUBSET Listed /\ Cardinality(shown) = enabledCount /\ enabledCount \in Nat
  BY DEF Acceptable, TradingInv, FundInv, FundTypeOK
<1>2. Cardinality(shown) >= Cardinality(Listed)
  BY <1>1
<1> QED
  BY <1>1, <1>2, AllOfThem

\* A step that only moves lamports of the vault moves the NAV by as many; the ledger's NAV
\* is the whole fund's.
LEMMA NavFollowsVault ==
    ASSUME TradingInv, Acceptable(shown), enabledCount = Cardinality(Listed),
           UNCHANGED tradeVars, vault' \in Nat
    PROVE  /\ Nav \in Nat /\ Nav = vault + Assets
           /\ Nav' = Nav + (vault' - vault)
<1>1. shown = Listed /\ SellMints \subseteq Listed
  BY WholeFundShown DEF Acceptable
<1> DEFINE x == SumFunction(TokenValues)
           y == SumFunction(LimitValues)
           z == SumFunction(DcaValues)
<1>2. x \in Nat /\ y \in Nat /\ z \in Nat /\ vault \in Nat
  BY <1>1, SumsNat
<1>3. Nav = vault + x + y + z /\ Assets = Nav - vault
  BY <1>1 DEF Nav, NavOf, TokenValues, Assets
<1>4. x' = x /\ y' = y /\ z' = z
  <2>1. PricesKept /\ tokens' = tokens /\ limit' = limit /\ dca' = dca
    BY DEF tradeVars, whitelists, oracle, limitVars, dcaVars, PricesKept
  <2> QED
    BY <2>1, SumsKept
<1>5. Nav' = vault' + x' + y' + z'
  BY DEF Nav, NavOf, TokenValues
<1>6. Nav' = vault' + x + y + z
  BY <1>4, <1>5
<1> HIDE DEF x, y, z
<1> QED
  BY <1>2, <1>3, <1>6

\* While the count of the listings is exact, deposits and payouts lower nobody's share of the
\* whole fund, at any prices and whatever the orders hold: the accounts the caller brings
\* along can then be none but all of them.
THEOREM WholeFundUndilutedHolds == InvestedSpec => WholeFundUndiluted
<1> DEFINE Kept == totalShares' # totalShares /\ totalShares > 0
                       /\ enabledCount = Cardinality(Listed)
                          => Nav' * totalShares >= Nav * totalShares'
<1>1. ASSUME InvestedInv, InvestedNext PROVE Kept
  <2> SUFFICES ASSUME totalShares' # totalShares, totalShares > 0,
                      enabledCount = Cardinality(Listed)
               PROVE  Nav' * totalShares >= Nav * totalShares'
    OBVIOUS
  <2>0. TradingInv /\ totalShares \in Nat /\ vault \in Nat
    BY <1>1 DEF InvestedInv, TradingInv, FundInv, FundTypeOK
  <2>1. ASSUME NEW deposit \in DepositAmounts, NEW lock \in MinTimelock .. MaxTimelock,
               InvestedInitializeFund(deposit, lock)
        PROVE  FALSE
    BY <1>1, <2>1 DEF InvestedInv, InvestedInitializeFund, Ledger!InitializeFund,
                      Ledger!FundExists, Ledger!NoFund
  <2>2. ASSUME NEW i \in Investors, NEW amount \in DepositAmounts, InvestedDeposit(i, amount)
        PROVE  Nav' * totalShares >= Nav * totalShares'
    <3>1. PICK net \in Nat, minted \in Nat :
              /\ vault' = vault + net /\ totalShares' = totalShares + minted
              /\ minted * (vault + Assets) <= net * totalShares
      BY <1>1, <2>2, DepositKeeps
    <3>2. vault' \in Nat /\ vault' - vault = net
      BY <2>0, <3>1
    <3>3. Nav \in Nat /\ Nav = vault + Assets /\ Nav' = Nav + net
      BY <1>1, <2>0, <2>2, <3>2, DepositKeeps, NavFollowsVault
    <3>4. minted * Nav <= net * totalShares
      BY <3>1, <3>3
    <3> QED
      BY <2>0, <3>1, <3>3, <3>4, MintKeepsValue
  <2>3. ASSUME NEW i \in Investors, InvestedExecuteWithdraw(i)
        PROVE  Nav' * totalShares >= Nav * totalShares'
    <3>1. PICK gross \in Nat, shares \in Nat :
              /\ vault' = vault - gross /\ totalShares' = totalShares - shares
              /\ gross * totalShares <= shares * (vault + Assets)
      BY <1>1, <2>3, WithdrawKeeps
    <3>2. vault' \in Nat
      BY <1>1, <2>3, WithdrawKeeps DEF InvestedInv, TradingInv, FundInv, FundTypeOK
    <3>3. Nav \in Nat /\ Nav = vault + Assets /\ Nav' = Nav + (vault' - vault)
      BY <1>1, <2>0, <2>3, <3>2, WithdrawKeeps, NavFollowsVault
    <3>4. Nav' = Nav - gross
      BY <2>0, <3>1, <3>3
    <3>5. gross * totalShares <= shares * Nav
      BY <3>1, <3>3
    <3> QED
      BY <2>0, <3>1, <3>3, <3>4, <3>5, PayoutKeepsValue
  <2>4. ASSUME NEW i \in Investors, InvestedRequests(i) PROVE FALSE
    BY <1>1, <2>4, RequestsKeep
  <2>5. ASSUME NEW mints \in SUBSET Mints, ChooseAccounts(mints) PROVE FALSE
    BY <1>1, <2>5, ChoiceRevalues
  <2>6. ASSUME InvestedTrading PROVE FALSE
    BY <2>6 DEF InvestedTrading, ledgerVars
  <2> QED
    BY <1>1, <2>1, <2>2, <2>3, <2>4, <2>5, <2>6 DEF InvestedNext
<1>2. InvestedInv /\ [InvestedNext]_investedVars => [Kept]_investedVars
  BY <1>1
<1> QED
  BY <1>2, InvestedInvariant, PTL DEF InvestedSpec, WholeFundUndiluted

\* The payout of the last share leaves no order that holds SOL and, while the count of the
\* listings is exact, no listed token worth a lamport, since it needs all of the NAV from the
\* vault, and orders are part of every NAV.
THEOREM LastShareEmptiesOrdersHolds == InvestedSpec => LastShareEmptiesOrders
<1> DEFINE Emptied == totalShares > 0 /\ totalShares' = 0
                          => /\ \A i \in OpenLimits : limit[i].sol = 0
                             /\ \A i \in OpenDcas : dca[i].side = "SELL"
                             /\ enabledCount = Cardinality(Listed)
                                  => \A m \in Listed : LamportsFor(tokens[m], listed[m]) = 0
<1>1. ASSUME InvestedInv, InvestedNext, totalShares > 0, totalShares' = 0
      PROVE  Acceptable(shown) /\ Assets = 0
  <2>1. ASSUME NEW deposit \in DepositAmounts, NEW lock \in MinTimelock .. MaxTimelock,
               InvestedInitializeFund(deposit, lock)
        PROVE  FALSE
    <3> DEFINE net == deposit - Ledger!FeeOf(deposit, DepositFeeBps)
    <3>1. net > 0 /\ totalShares' = totalShares + net
      BY <2>1 DEF InvestedInitializeFund, Ledger!InitializeFund, Ledger!Mint
    <3>2. deposit \in Nat /\ Ledger!FeeOf(deposit, DepositFeeBps) \in Nat
      BY InvestedFundAssumption, LedgerFee
    <3>3. net \in Int
      BY <3>2
    <3> HIDE DEF net
    <3> QED
      BY <1>1, <3>1, <3>3 DEF InvestedInv
  <2>2. ASSUME NEW i \in Investors, NEW amount \in DepositAmounts, InvestedDeposit(i, amount)
        PROVE  FALSE
    <3>1. totalShares' > 0
      BY <1>1, <2>2, DepositKeeps
    <3> QED
      BY <1>1, <3>1
  <2>3. ASSUME NEW i \in Investors, InvestedExecuteWithdraw(i) PROVE Acceptable(shown) /\ Assets = 0
    BY <1>1, <2>3, WithdrawKeeps
  <2>4. ASSUME NEW i \in Investors, InvestedRequests(i) PROVE FALSE
    <3>1. totalShares' = totalShares
      BY <1>1, <2>4, RequestsKeep
    <3> QED
      BY <1>1, <3>1
  <2>5. CASE InvestedTrading
    <3>1. totalShares' = totalShares
      BY <2>5 DEF InvestedTrading, ledgerVars
    <3> QED
      BY <1>1, <3>1
  <2>6. ASSUME NEW mints \in SUBSET Mints, ChooseAccounts(mints) PROVE FALSE
    <3>1. totalShares' = totalShares
      BY <1>1, <2>6, ChoiceRevalues
    <3> QED
      BY <1>1, <3>1
  <2> QED
    BY <1>1, <2>1, <2>2, <2>3, <2>4, <2>5, <2>6 DEF InvestedNext
<1>2. ASSUME InvestedInv, Acceptable(shown), Assets = 0
      PROVE  /\ \A i \in OpenLimits : limit[i].sol = 0
             /\ \A i \in OpenDcas : dca[i].side = "SELL"
             /\ \A m \in shown : LamportsFor(tokens[m], listed[m]) = 0
  <2>1. /\ TradingInv /\ SellMints \subseteq Listed
        /\ shown \in SUBSET Listed /\ SellMints \subseteq shown
    BY <1>2 DEF InvestedInv, Acceptable
  <2> DEFINE f == ValuesOf(shown)
             g == LimitValues
             h == DcaValues
  <2>2. /\ f \in [shown -> Nat] /\ g \in [OpenLimits -> Nat] /\ h \in [OpenDcas -> Nat]
        /\ IsFiniteSet(shown) /\ IsFiniteSet(OpenLimits) /\ IsFiniteSet(OpenDcas)
    BY <2>1, SummandsNat, NavOfNat
  <2>3. SumFunction(f) = 0 /\ SumFunction(g) = 0 /\ SumFunction(h) = 0
    <3>1. SumFunction(f) \in Nat /\ SumFunction(g) \in Nat /\ SumFunction(h) \in Nat /\ vault \in Nat
      BY <2>1, NavOfNat
    <3>2. vault + SumFunction(f) + SumFunction(g) + SumFunction(h) - vault = 0
      <4>1. NavOf(shown) - vault = 0
        BY <1>2 DEF Assets
      <4>2. NavOf(shown) = vault + SumFunction(f) + SumFunction(g) + SumFunction(h)
        BY DEF NavOf
      <4> QED
        BY <3>1, <4>1, <4>2
    <3>3. \A v, x, y, z \in Nat : v + x + y + z - v = 0 => x = 0 /\ y = 0 /\ z = 0
      OBVIOUS
    <3> QED
      BY <3>1, <3>2, <3>3
  <2>4. /\ \A m \in shown : f[m] = 0
        /\ \A i \in OpenLimits : g[i] = 0
        /\ \A i \in OpenDcas : h[i] = 0
    <3> HIDE DEF f, g, h
    <3>1. /\ \A m \in shown : f[m] <= 0 /\ f[m] \in Nat
          /\ \A i \in OpenLimits : g[i] <= 0 /\ g[i] \in Nat
          /\ \A i \in OpenDcas : h[i] <= 0 /\ h[i] \in Nat
      BY <2>2, <2>3, SumCoversTerm
    <3> QED
      BY <3>1
  <2>5. \A m \in shown : LamportsFor(tokens[m], listed[m]) = 0
    BY <2>4 DEF ValuesOf
  <2>6. ASSUME NEW i \in OpenLimits PROVE limit[i].sol = 0
    <3>1. EscrowValue(limit[i]) = 0
      BY <2>4 DEF LimitValues
    <3>2. i \in OrderIds /\ (limit[i].side # "BUY" => limit[i].sol = 0)
      BY <2>1 DEF OpenLimits, TradingInv, LimitInv, LimitEscrowExact
    <3> QED
      BY <3>1, <3>2 DEF EscrowValue
  <2>7. ASSUME NEW i \in OpenDcas PROVE dca[i].side = "SELL"
    <3>1. EscrowValue(dca[i]) = 0
      BY <2>4 DEF DcaValues
    <3>2. dca[i] \in DcaOrder /\ dca[i].status = "open" /\ HoldsRest(dca[i])
      BY <2>1, EscrowByOrder DEF OpenDcas, TradingInv, DcaInv, DcaTypeOK, DcaOrder
    <3>3. ASSUME dca[i].side = "BUY" PROVE FALSE
      <4>1. dca[i].sol = 0 /\ dca[i].sol = SolVaultRent + dca[i].remaining
        BY <3>1, <3>2, <3>3 DEF EscrowValue, HoldsRest
      <4>2. SolVaultRent \in Nat \ {0} /\ dca[i].remaining \in Nat
        BY <3>2, FundAccountsAssumption DEF DcaOrder
      <4> QED
        BY <4>1, <4>2
    <3> QED
      BY <3>2, <3>3 DEF DcaOrder
  <2> QED
    BY <2>5, <2>6, <2>7
<1>3. InvestedInv /\ [InvestedNext]_investedVars => [Emptied]_investedVars
  <2> SUFFICES ASSUME InvestedInv, InvestedNext, totalShares > 0, totalShares' = 0
               PROVE  Emptied
    OBVIOUS
  <2>1. Acceptable(shown) /\ Assets = 0 /\ TradingInv
    BY <1>1 DEF InvestedInv
  <2> QED
    BY <1>2, <2>1, WholeFundShown
<1> QED
  BY <1>3, InvestedInvariant, PTL DEF InvestedSpec, LastShareEmptiesOrders
=============================================================================
