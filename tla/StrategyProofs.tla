--------------------------- MODULE StrategyProofs ---------------------------
(***************************************************************************)
(* Proofs about a strategy fund (StrategyFund).                            *)
(*                                                                         *)
(* OrderProofs is extended for what it proves of FundAccounts, which a     *)
(* strategy fund shares with a trading fund; orders play no part here.     *)
(***************************************************************************)
EXTENDS StrategyFund, OrderProofs

\* The Strategy accounts.
IsStrategy(s) ==
    /\ s = [weights |-> s.weights, threshold |-> s.threshold, cooldown |-> s.cooldown,
            last |-> s.last]
    /\ DOMAIN s.weights \subseteq Mints /\ IsFiniteSet(DOMAIN s.weights)
    /\ s.weights \in [DOMAIN s.weights -> 1 .. BpsDenominator]
    /\ s.threshold \in 0 .. BpsDenominator
    /\ s.cooldown \in Nat /\ s.last \in Nat

\* Wrapped SOL is what the last purchase left and what others have sent; what is not
\* synced yet is theirs.
WrappedInv ==
    /\ ata \in BOOLEAN
    /\ wsol \in Nat /\ unsynced \in Nat /\ lastBuy \in Nat /\ donated \in Nat
    /\ ~ata => wsol = 0 /\ unsynced = 0
    /\ unsynced <= donated
    /\ WsolFromOneBuy

\* The invariant of a strategy fund: last_rebalance_ts is when the last trade or
\* set_strategy happened.
StrategyInv ==
    /\ FundInv
    /\ opened \in BOOLEAN
    /\ IsStrategy(strategy)
    /\ strategy.last <= now
    /\ lastTrade = strategy.last
    /\ WrappedInv

\* Before initialize_strategy_fund there is nothing.
LEMMA StrategyInitHolds == StrategyInit => StrategyInv
<1> SUFFICES ASSUME StrategyInit PROVE StrategyInv
  OBVIOUS
<1>1. FundInv
  BY FundInvInit DEF StrategyInit
<1>2. now = 0 /\ strategy = NoStrategy /\ opened = FALSE /\ ata = FALSE /\ wsol = 0
      /\ unsynced = 0 /\ lastBuy = 0 /\ lastTrade = 0 /\ donated = 0
  BY DEF StrategyInit, NothingHeld
<1>3. DOMAIN NoStrategy.weights = {}
  BY DEF NoStrategy
<1>4. NoStrategy.weights \in [{} -> 1 .. BpsDenominator]
  BY DEF NoStrategy
<1>5. IsStrategy(NoStrategy)
  BY <1>3, <1>4, FS_EmptySet DEF IsStrategy, NoStrategy, BpsDenominator
<1>6. IsStrategy(strategy) /\ strategy.last = 0
  BY <1>2, <1>5 DEF NoStrategy
<1>7. opened \in BOOLEAN /\ ata \in BOOLEAN
  BY <1>2
<1>8. strategy.last <= now /\ lastTrade = strategy.last
  BY <1>2, <1>6
<1>9. /\ wsol \in Nat /\ unsynced \in Nat /\ lastBuy \in Nat /\ donated \in Nat
      /\ unsynced <= donated /\ wsol + unsynced <= lastBuy + donated
  BY <1>2
<1>10. WrappedInv
  BY <1>2, <1>7, <1>9 DEF WrappedInv, WsolFromOneBuy
<1> QED
  BY <1>1, <1>6, <1>7, <1>8, <1>10 DEF StrategyInv

\* Instructions that leave the strategy and the wrapped SOL alone.
LEMMA OthersKeepStrategy ==
    ASSUME StrategyInv, FundInv', opened' \in BOOLEAN, UNCHANGED <<strategy, wrapped, history>>,
           now' >= now
    PROVE  StrategyInv'
<1>1. strategy' = strategy /\ lastTrade' = lastTrade
      /\ UNCHANGED <<ata, wsol, unsynced, lastBuy, donated>>
  BY DEF wrapped, history
<1>2. strategy.last \in Nat /\ now \in Nat /\ now' \in Nat
  BY DEF StrategyInv, IsStrategy, FundInv, FundTypeOK
<1>3. WrappedInv'
  BY <1>1 DEF StrategyInv, WrappedInv, WsolFromOneBuy
<1> QED
  BY <1>1, <1>2, <1>3 DEF StrategyInv

\* What happens to any fund.
LEMMA SharedKeeps == ASSUME StrategyInv, SharedWithAllFunds PROVE StrategyInv'
<1>1. FundNext
  BY DEF SharedWithAllFunds, FundNext
<1>2. FundInv'
  BY <1>1, FundNextKeepsFund DEF StrategyInv
<1>3. now' >= now
  BY DEF SharedWithAllFunds, AddGlobal, RemoveGlobal, AddFund, RemoveFund, RemoveOther,
         PriceMoves, SolPriceMoves, Tick, StrategyInv, FundInv, FundTypeOK
<1> QED
  BY <1>2, <1>3, OthersKeepStrategy DEF SharedWithAllFunds, StrategyInv

\* initialize_strategy_fund.
LEMMA InitializeKeepsStrategy ==
    ASSUME StrategyInv, NEW deposit \in Amounts, InitializeStrategyFund(deposit)
    PROVE  StrategyInv'
<1> DEFINE fee == FeeOf(deposit, DepositFeeBps)
           net == deposit - fee
<1>1. /\ UNCHANGED <<now, tokens, whitelists, nextOrderId, oracle, strategy, wrapped, history>>
      /\ vault' = VaultRent + net /\ opened' = TRUE
  BY DEF InitializeStrategyFund
<1>2. deposit \in Nat /\ VaultRent \in Nat /\ DepositFeeBps \in 0 .. BpsDenominator
  BY FundAccountsAssumption, StrategyAssumption
<1>3. fee \in Nat /\ fee <= deposit
  BY <1>2, FeeInAmount
<1> HIDE DEF fee
<1>4. net \in Nat
  BY <1>2, <1>3
<1> HIDE DEF net
<1>5. vault' \in Nat
  BY <1>1, <1>2, <1>4
<1>6. FundInv'
  BY <1>1, <1>5, MovesKeepFund DEF StrategyInv, FundInv, FundTypeOK
<1>7. now' >= now
  BY <1>1 DEF StrategyInv, FundInv, FundTypeOK
<1> QED
  BY <1>1, <1>6, <1>7, OthersKeepStrategy

\* set_strategy: weights that add up to 100% are at most 100% each.
LEMMA SetStrategyKeeps ==
    ASSUME StrategyInv, NEW mints \in SUBSET Mints, NEW weights \in [mints -> Weights],
           NEW threshold \in Thresholds, NEW cooldown \in Cooldowns,
           SetStrategy(weights, threshold, cooldown)
    PROVE  StrategyInv'
<1>1. DOMAIN weights = mints
  OBVIOUS
<1>2. /\ threshold <= BpsDenominator /\ mints \subseteq Listed
      /\ \A m \in mints : weights[m] > 0
      /\ SumFunction(weights) = BpsDenominator
      /\ strategy' = [weights |-> weights, threshold |-> threshold, cooldown |-> cooldown,
                      last |-> now]
      /\ lastTrade' = now
      /\ UNCHANGED <<fundVars, opened, wrapped, lastBuy, donated>>
  BY <1>1 DEF SetStrategy
<1>3. IsFiniteSet(mints)
  BY <1>2, FS_Subset DEF StrategyInv, FundInv
<1>4. weights \in [mints -> Nat] /\ threshold \in Nat /\ cooldown \in Nat /\ now \in Nat
  BY StrategyAssumption DEF StrategyInv, FundInv, FundTypeOK
<1>5. \A m \in mints : weights[m] \in 1 .. BpsDenominator
  <2>1. \A m \in mints : weights[m] <= SumFunction(weights)
    BY <1>3, <1>4, SumCoversTerm
  <2>2. \A m \in mints : weights[m] \in Nat /\ weights[m] > 0 /\ weights[m] <= BpsDenominator
    BY <1>2, <1>4, <2>1
  <2>3. BpsDenominator \in Nat
    BY DEF BpsDenominator
  <2> QED
    BY <2>2, <2>3
<1>6. weights \in [mints -> 1 .. BpsDenominator]
  BY <1>5
<1>7. strategy'.weights = weights /\ strategy'.threshold = threshold
      /\ strategy'.cooldown = cooldown /\ strategy'.last = now
  BY <1>2
<1>8. threshold \in 0 .. BpsDenominator
  BY <1>2, <1>4 DEF BpsDenominator
<1>9. IsStrategy(strategy')
  BY <1>1, <1>2, <1>3, <1>4, <1>6, <1>7, <1>8 DEF IsStrategy
<1>10. FundInv' /\ now' = now /\ opened' = opened
  <2>1. UNCHANGED <<now, whitelists, oracle, vault, tokens, nextOrderId>>
    BY <1>2 DEF fundVars, holdings
  <2> QED
    BY <1>2, <2>1, MovesKeepFund DEF StrategyInv, FundInv, FundTypeOK
<1>11. WrappedInv'
  BY <1>2 DEF StrategyInv, WrappedInv, WsolFromOneBuy, wrapped
<1> QED
  BY <1>2, <1>4, <1>7, <1>9, <1>10, <1>11 DEF StrategyInv

-----------------------------------------------------------------------------
(* rebalance_strategy.                                                     *)

\* The numbers a rebalance works with are whole, and its token is listed.
LEMMA RebalanceNumbers ==
    ASSUME StrategyInv, StrategyFits, NEW m \in Allocated
    PROVE  /\ m \in Listed /\ m \in Mints /\ tokens[m] \in Nat
           /\ NavOver(Allocated) \in Nat
           /\ TargetOf(m) \in Nat /\ ValueOf(m) \in Nat /\ Deviation(m) \in Int
<1>1. FundInv /\ Allocated \subseteq Listed /\ IsFiniteSet(Allocated)
      /\ strategy.weights \in [Allocated -> 1 .. BpsDenominator]
  BY DEF StrategyInv, StrategyFits, IsStrategy, Allocated
<1>2. \A x \in Allocated : x \in Listed /\ x \in Mints /\ tokens[x] \in Nat
  BY <1>1 DEF Listed, FundInv, FundTypeOK
<1>3. \A x \in Allocated : ValueOf(x) \in Nat
  BY <1>1, <1>2, ValueNat DEF ValueOf
<1>4. NavOver(Allocated) \in Nat
  <2> DEFINE f == [x \in Allocated |-> ValueOf(x)]
  <2>1. f \in [Allocated -> Nat]
    BY <1>3
  <2> HIDE DEF f
  <2>2. SumFunction(f) \in Nat
    BY <1>1, <2>1, SumFunctionNat
  <2>3. vault \in Nat
    BY <1>1 DEF FundInv, FundTypeOK
  <2> QED
    BY <2>2, <2>3 DEF NavOver, f
<1>5. TargetOf(m) \in Nat
  <2> DEFINE n == NavOver(Allocated)
             w == strategy.weights[m]
  <2>1. n \in Nat /\ w \in Nat
    BY <1>1, <1>4
  <2> HIDE DEF n, w
  <2>2. n * w \in Nat /\ BpsDenominator \in Nat \ {0}
    BY <2>1 DEF BpsDenominator
  <2>3. (n * w) \div BpsDenominator \in Nat
    BY <2>2, DivisionRoundsDown
  <2> QED
    BY <2>3 DEF TargetOf, n, w
<1> QED
  BY <1>2, <1>3, <1>4, <1>5 DEF Deviation

\* A purchase and a sale, in the numbers that matter: a token, what it gains or loses, and
\* what the vault gives or gets for it.
Bought(m, spend, out) ==
    /\ spend \in Nat /\ out \in Nat \ {0} /\ Deviation(m) = -spend
    /\ out >= ApplyMaxSlippage(TokensFor(spend, listed[m]), MaxSlippageBps)
    /\ vault >= spend /\ vault' = vault - spend
    /\ tokens' = [tokens EXCEPT ![m] = @ + out]
    /\ ata' = TRUE /\ wsol' \in Nat /\ unsynced' = 0 /\ lastBuy' = spend
    /\ wsol' <= spend + unsynced /\ UNCHANGED donated

Sold(m, sold, out) ==
    /\ sold \in Nat \ {0} /\ out \in Nat /\ Deviation(m) \in Nat
    /\ sold <= TokensFor(Deviation(m), listed[m]) + SellDust
    /\ sold <= tokens[m]
    /\ out >= ApplyMaxSlippage(LamportsFor(sold, listed[m]), MaxSlippageBps)
    /\ vault' = vault + out
    /\ tokens' = [tokens EXCEPT ![m] = @ - sold]
    /\ UNCHANGED <<wrapped, lastBuy, donated>>

\* The smaller of two numbers.
LEMMA MinOfTwo ==
    ASSUME NEW a \in Nat, NEW b \in Nat
    PROVE  Min({a, b}) \in {a, b} /\ Min({a, b}) <= a /\ Min({a, b}) <= b
<1>1. \E x \in {a, b} : \A y \in {a, b} : x <= y
  OBVIOUS
<1>2. Min({a, b}) = CHOOSE x \in {a, b} : \A y \in {a, b} : x <= y
  BY DEF Min
<1>3. Min({a, b}) \in {a, b} /\ \A y \in {a, b} : Min({a, b}) <= y
  BY <1>1, <1>2
<1> QED
  BY <1>3

\* A rebalance is one or the other.
LEMMA RebalanceTrades ==
    ASSUME StrategyInv, NEW m \in Mints, NEW out \in Outs, RebalanceStrategy(m, out)
    PROVE  /\ StrategyFits /\ m \in Allocated /\ m \in Listed
           /\ \/ \E spend : Bought(m, spend, out)
              \/ \E sold : Sold(m, sold, out)
<1>1. /\ StrategyFits /\ m \in Allocated /\ wsol = 0 /\ out > 0
  BY DEF RebalanceStrategy, RebalanceDue, WsolCleared
<1>2. /\ m \in Listed /\ tokens[m] \in Nat /\ Deviation(m) \in Int
  BY <1>1, RebalanceNumbers
<1>3. out \in Nat /\ Rests \subseteq Nat /\ SellDust \in Nat
  BY FundAccountsAssumption, StrategyAssumption
<1>4. ASSUME NEW rest \in Rests, Buy(m, out, rest) PROVE \E spend : Bought(m, spend, out)
  <2> DEFINE spend == -Deviation(m)
  <2>1. /\ spend > 0 /\ vault >= spend /\ out >= LeastBought(spend, m)
        /\ rest <= spend + unsynced
        /\ vault' = vault - spend /\ tokens' = [tokens EXCEPT ![m] = @ + out]
        /\ ata' = TRUE /\ wsol' = wsol + rest /\ unsynced' = 0 /\ lastBuy' = spend
        /\ UNCHANGED donated
    BY <1>4 DEF Buy
  <2>2. spend \in Nat /\ Deviation(m) = -spend
    BY <1>2, <2>1
  <2> HIDE DEF spend
  <2>3. wsol' \in Nat /\ wsol' <= spend + unsynced
    BY <1>1, <1>3, <2>1, <2>2
  <2>4. Bought(m, spend, out)
    BY <1>1, <1>3, <2>1, <2>2, <2>3 DEF Bought, LeastBought
  <2> QED
    BY <2>4
<1>5. ASSUME NEW sold \in 1 .. SellCap(m), Sell(m, sold, out) PROVE \E s : Sold(m, s, out)
  <2> DEFINE cap == TokensFor(Deviation(m), listed[m])
             wanted == Min({cap, tokens[m]})
  <2>1. /\ Deviation(m) > 0 /\ sold > 0 /\ sold <= SellCap(m) /\ sold <= tokens[m]
        /\ out >= ApplyMaxSlippage(LamportsFor(sold, listed[m]), MaxSlippageBps)
        /\ tokens' = [tokens EXCEPT ![m] = @ - sold] /\ vault' = vault + out
        /\ UNCHANGED <<wrapped, lastBuy, donated>>
    BY <1>5 DEF Sell
  <2>2. Deviation(m) \in Nat
    BY <1>2, <2>1
  <2>3. cap \in Nat
    <3> DEFINE d == Deviation(m)
               p == price[listed[m]]
    <3>1. d \in Nat /\ p \in Nat \ {0} /\ solPrice \in Nat
      BY <1>2, <2>2, PricesPositive DEF StrategyInv
    <3> HIDE DEF d, p
    <3>2. d * solPrice \in Nat
      BY <3>1
    <3>3. (d * solPrice) \div p \in Nat
      BY <3>1, <3>2, DivisionRoundsDown
    <3> QED
      BY <3>3 DEF TokensFor, d, p
  <2>4. wanted <= cap /\ wanted \in Nat
    BY <1>2, <2>3, MinOfTwo
  <2>5. SellCap(m) = IF wanted > 0 THEN wanted + SellDust ELSE 0
    BY DEF SellCap
  <2> HIDE DEF cap, wanted
  <2>6. sold \in Nat \ {0} /\ sold <= cap + SellDust
    BY <1>2, <1>3, <2>1, <2>3, <2>4, <2>5
  <2>7. Sold(m, sold, out)
    BY <1>3, <2>1, <2>2, <2>6 DEF Sold, cap
  <2> QED
    BY <2>7
<1> QED
  BY <1>1, <1>2, <1>4, <1>5 DEF RebalanceStrategy

\* rebalance_strategy keeps the invariant: it starts with no wrapped SOL but what others
\* have sent and not synced, and stamps itself.
LEMMA RebalanceKeeps ==
    ASSUME StrategyInv, NEW m \in Mints, NEW out \in Outs, RebalanceStrategy(m, out)
    PROVE  StrategyInv'
<1>1. /\ strategy' = [strategy EXCEPT !.last = now] /\ lastTrade' = now
      /\ UNCHANGED <<now, whitelists, nextOrderId, oracle, opened>>
  BY DEF RebalanceStrategy, Stamp
<1>2. IsStrategy(strategy) /\ now \in Nat
  BY DEF StrategyInv, FundInv, FundTypeOK
<1>3. IsStrategy(strategy') /\ strategy'.last = now
  <2>1. strategy' = [weights |-> strategy.weights, threshold |-> strategy.threshold,
                     cooldown |-> strategy.cooldown, last |-> now]
    <3> DEFINE s == [weights |-> strategy.weights, threshold |-> strategy.threshold,
                     cooldown |-> strategy.cooldown, last |-> strategy.last]
    <3>1. strategy = s
      BY <1>2 DEF IsStrategy
    <3>2. [s EXCEPT !.last = now] = [weights |-> strategy.weights,
                     threshold |-> strategy.threshold,
                     cooldown |-> strategy.cooldown, last |-> now]
      OBVIOUS
    <3> HIDE DEF s
    <3> QED
      BY <1>1, <3>1, <3>2
  <2> QED
    BY <1>2, <2>1 DEF IsStrategy
<1>4. m \in Listed /\ tokens \in [Mints -> Nat] /\ tokens[m] \in Nat /\ vault \in Nat
  BY RebalanceTrades DEF StrategyInv, FundInv, FundTypeOK
<1>5. ASSUME vault' \in Nat, tokens' \in [Mints -> Nat], WrappedInv'
      PROVE  StrategyInv'
  <2>1. FundInv'
    BY <1>1, <1>5, MovesKeepFund DEF StrategyInv, FundInv, FundTypeOK
  <2>2. strategy'.last <= now' /\ lastTrade' = strategy'.last
    BY <1>1, <1>2, <1>3
  <2>3. opened' \in BOOLEAN
    BY <1>1 DEF StrategyInv
  <2> QED
    BY <1>3, <1>5, <2>1, <2>2, <2>3 DEF StrategyInv
<1>6. ASSUME NEW spend, Bought(m, spend, out) PROVE StrategyInv'
  <2>1. /\ spend \in Nat /\ out \in Nat /\ vault >= spend /\ vault' = vault - spend
        /\ tokens' = [tokens EXCEPT ![m] = @ + out]
        /\ ata' = TRUE /\ wsol' \in Nat /\ wsol' <= spend + unsynced /\ unsynced' = 0
        /\ lastBuy' = spend /\ donated' = donated
    BY <1>6 DEF Bought
  <2>2. vault' \in Nat /\ tokens[m] + out \in Nat
    BY <1>4, <2>1
  <2>3. tokens' \in [Mints -> Nat]
    BY <1>4, <2>1, <2>2
  <2>4. unsynced \in Nat /\ donated \in Nat /\ unsynced <= donated
    BY DEF StrategyInv, WrappedInv
  <2>5. /\ unsynced' \in Nat /\ lastBuy' \in Nat /\ donated' \in Nat
        /\ wsol' + unsynced' <= lastBuy' + donated' /\ unsynced' <= donated'
    <3>1. \A w, s, u, d \in Nat : w <= s + u /\ u <= d => w + 0 <= s + d /\ 0 <= d
      OBVIOUS
    <3>2. wsol' + 0 <= spend + donated /\ 0 <= donated
      BY <2>1, <2>4, <3>1
    <3> QED
      BY <2>1, <2>4, <3>2
  <2>6. ata' \in BOOLEAN
    BY <2>1
  <2>7. WrappedInv'
    BY <2>1, <2>5, <2>6 DEF WrappedInv, WsolFromOneBuy
  <2> QED
    BY <1>5, <2>2, <2>3, <2>7
<1>7. ASSUME NEW sold, Sold(m, sold, out) PROVE StrategyInv'
  <2>1. /\ sold \in Nat /\ out \in Nat /\ sold <= tokens[m] /\ vault' = vault + out
        /\ tokens' = [tokens EXCEPT ![m] = @ - sold]
        /\ UNCHANGED <<ata, wsol, unsynced, lastBuy, donated>>
    BY <1>7 DEF Sold, wrapped
  <2>2. vault' \in Nat /\ tokens[m] - sold \in Nat
    BY <1>4, <2>1
  <2>3. tokens' \in [Mints -> Nat]
    BY <1>4, <2>1, <2>2
  <2>4. WrappedInv'
    BY <2>1 DEF StrategyInv, WrappedInv, WsolFromOneBuy
  <2> QED
    BY <1>5, <2>2, <2>3, <2>4
<1> QED
  BY <1>6, <1>7, RebalanceTrades

\* sweep_wsol.
LEMMA SweepKeeps == ASSUME StrategyInv, SweepWsol PROVE StrategyInv'
<1>1. /\ vault' = vault + wsol + unsynced + TokenAccountRent
      /\ ata' = FALSE /\ wsol' = 0 /\ unsynced' = 0 /\ donated' = 0
      /\ UNCHANGED <<now, tokens, whitelists, nextOrderId, oracle, opened, strategy,
                     lastBuy, lastTrade>>
  BY DEF SweepWsol
<1>2. vault \in Nat /\ wsol \in Nat /\ unsynced \in Nat /\ TokenAccountRent \in Nat
      /\ lastBuy \in Nat
  BY FundAccountsAssumption DEF StrategyInv, WrappedInv, FundInv, FundTypeOK
<1>3. vault' \in Nat /\ WrappedInv'
  <2>1. /\ vault' \in Nat /\ wsol' \in Nat /\ unsynced' \in Nat /\ lastBuy' \in Nat
        /\ donated' \in Nat /\ unsynced' <= donated'
        /\ wsol' + unsynced' <= lastBuy' + donated'
    BY <1>1, <1>2
  <2>2. ata' \in BOOLEAN
    BY <1>1
  <2> QED
    BY <1>1, <2>1, <2>2 DEF WrappedInv, WsolFromOneBuy
<1>4. FundInv'
  BY <1>1, <1>3, MovesKeepFund DEF StrategyInv, FundInv, FundTypeOK
<1>5. IsStrategy(strategy') /\ strategy'.last <= now' /\ lastTrade' = strategy'.last
      /\ opened' \in BOOLEAN
  BY <1>1 DEF StrategyInv
<1> QED
  BY <1>3, <1>4, <1>5 DEF StrategyInv

\* Lamports sent to the wrapped SOL account.
LEMMA SendKeeps ==
    ASSUME StrategyInv, NEW lamports \in Gifts, NEW synced \in BOOLEAN,
           SendToWsolVault(lamports, synced)
    PROVE  StrategyInv'
<1>1. /\ ata' = TRUE /\ donated' = donated + lamports
      /\ UNCHANGED <<fundVars, opened, strategy, lastBuy, lastTrade>>
  BY DEF SendToWsolVault
<1>2. \/ wsol' = wsol + unsynced + lamports /\ unsynced' = 0
      \/ unsynced' = unsynced + lamports /\ wsol' = wsol
  BY DEF SendToWsolVault
<1>3. lamports \in Nat /\ wsol \in Nat /\ unsynced \in Nat /\ donated \in Nat /\ lastBuy \in Nat
      /\ unsynced <= donated /\ wsol + unsynced <= lastBuy + donated
  BY StrategyAssumption DEF StrategyInv, WrappedInv, WsolFromOneBuy
<1>4. WrappedInv'
  <2>1. wsol' \in Nat /\ unsynced' \in Nat /\ donated' \in Nat /\ lastBuy' = lastBuy
    BY <1>1, <1>2, <1>3
  <2>2. unsynced' <= donated' /\ wsol' + unsynced' <= lastBuy' + donated'
    BY <1>1, <1>2, <1>3
  <2> QED
    BY <1>1, <1>3, <2>1, <2>2 DEF WrappedInv, WsolFromOneBuy
<1>5. UNCHANGED <<now, whitelists, oracle, vault, tokens, nextOrderId>>
  BY <1>1 DEF fundVars, holdings
<1>6. FundInv' /\ now' = now
  BY <1>5, MovesKeepFund DEF StrategyInv, FundInv, FundTypeOK
<1> QED
  BY <1>1, <1>4, <1>6 DEF StrategyInv

\* Deposits and payouts.
LEMMA LiquidityKeeps ==
    ASSUME StrategyInv, NEW lamports \in Amounts, LiquidityMoves(lamports) PROVE StrategyInv'
<1>1. /\ vault' = lamports
      /\ UNCHANGED <<now, tokens, whitelists, nextOrderId, oracle, opened, strategy,
                     wrapped, history>>
  BY DEF LiquidityMoves
<1>2. FundInv'
  BY <1>1, MovesKeepFund, FundAccountsAssumption DEF StrategyInv, FundInv, FundTypeOK
<1>3. now' >= now
  BY <1>1 DEF StrategyInv, FundInv, FundTypeOK
<1> QED
  BY <1>1, <1>2, <1>3, OthersKeepStrategy DEF StrategyInv

\* The invariant holds for every run of the fund.
LEMMA StrategyInvariant == StrategySpec => []StrategyInv
<1>1. StrategyInit => StrategyInv
  BY StrategyInitHolds
<1>2. StrategyInv /\ [StrategyNext]_strategyVars => StrategyInv'
  <2> SUFFICES ASSUME StrategyInv, [StrategyNext]_strategyVars PROVE StrategyInv'
    OBVIOUS
  <2>1. CASE UNCHANGED strategyVars
    <3>1. UNCHANGED <<now, whitelists, oracle, vault, tokens, nextOrderId, opened, strategy,
                      wrapped, history>>
      BY <2>1 DEF strategyVars, fundVars, holdings
    <3>2. FundInv' /\ now' >= now
      BY <3>1, MovesKeepFund DEF StrategyInv, FundInv, FundTypeOK
    <3> QED
      BY <3>1, <3>2, OthersKeepStrategy DEF StrategyInv
  <2> QED
    BY <2>1, SharedKeeps, InitializeKeepsStrategy, SetStrategyKeeps, RebalanceKeeps, SweepKeeps,
       SendKeeps, LiquidityKeeps DEF StrategyNext
<1> QED
  BY <1>1, <1>2, PTL DEF StrategySpec

\* The accounts of a strategy fund always hold values of their types.
THEOREM StrategyTyped == StrategySpec => []StrategyTypeOK
<1>1. StrategyInv => StrategyTypeOK
  BY DEF StrategyInv, IsStrategy, FundInv, StrategyTypeOK, Allocated, WrappedInv
<1> QED
  BY <1>1, StrategyInvariant, PTL

\* Wrapped SOL, which no NAV counts, is never more than one purchase set aside and what
\* others have sent to the account since the last sweep.
THEOREM WsolBounded == StrategySpec => []WsolFromOneBuy
<1>1. StrategyInv => WsolFromOneBuy
  BY DEF StrategyInv, WrappedInv
<1> QED
  BY <1>1, StrategyInvariant, PTL

-----------------------------------------------------------------------------
(* What a rebalance may do.                                                *)

\* Only rebalance_strategy changes a token balance.
LEMMA OnlyRebalancesTrade ==
    ASSUME [StrategyNext]_strategyVars, tokens' # tokens
    PROVE  \E m \in Mints, out \in Outs : RebalanceStrategy(m, out)
<1>1. CASE UNCHANGED strategyVars
  BY <1>1 DEF strategyVars, fundVars, holdings
<1>2. CASE SharedWithAllFunds
  BY <1>2 DEF SharedWithAllFunds, AddGlobal, RemoveGlobal, AddFund, RemoveFund, RemoveOther,
              PriceMoves, SolPriceMoves, Tick, holdings
<1>3. CASE \E deposit \in Amounts : InitializeStrategyFund(deposit)
  BY <1>3 DEF InitializeStrategyFund
<1>4. ASSUME NEW mints \in SUBSET Mints, NEW weights \in [mints -> Weights],
             NEW threshold \in Thresholds, NEW cooldown \in Cooldowns,
             SetStrategy(weights, threshold, cooldown)
      PROVE  FALSE
  BY <1>4 DEF SetStrategy, fundVars, holdings
<1>5. CASE SweepWsol
  BY <1>5 DEF SweepWsol
<1>6. CASE \E lamports \in Amounts : LiquidityMoves(lamports)
  BY <1>6 DEF LiquidityMoves
<1>7. CASE \E lamports \in Gifts, synced \in BOOLEAN : SendToWsolVault(lamports, synced)
  BY <1>7 DEF SendToWsolVault, fundVars, holdings
<1> QED
  BY <1>1, <1>2, <1>3, <1>4, <1>5, <1>6, <1>7 DEF StrategyNext

\* A rebalance moves its own token only.
LEMMA OneTokenMoves ==
    ASSUME StrategyInv, NEW m \in Mints, NEW out \in Outs, RebalanceStrategy(m, out)
    PROVE  \A x \in Mints \ {m} : tokens'[x] = tokens[x]
<1>1. tokens \in [Mints -> Nat]
  BY DEF StrategyInv, FundInv, FundTypeOK
<1>2. ASSUME NEW spend, Bought(m, spend, out) PROVE \A x \in Mints \ {m} : tokens'[x] = tokens[x]
  BY <1>1, <1>2 DEF Bought
<1>3. ASSUME NEW sold, Sold(m, sold, out) PROVE \A x \in Mints \ {m} : tokens'[x] = tokens[x]
  BY <1>1, <1>3 DEF Sold
<1> QED
  BY <1>2, <1>3, RebalanceTrades

\* Rebalances are a cooldown apart from the last trade, and from set_strategy: the ghost
\* lastTrade is last_rebalance_ts, which the cooldown is counted from.
THEOREM RebalanceSpacing == StrategySpec => RebalancesSpaced
<1>1. ASSUME StrategyInv, [StrategyNext]_strategyVars, tokens' # tokens
      PROVE  now >= lastTrade + strategy.cooldown
  <2>1. PICK m \in Mints, out \in Outs : RebalanceStrategy(m, out)
    BY <1>1, OnlyRebalancesTrade
  <2>2. now >= strategy.last + strategy.cooldown
    BY <2>1 DEF RebalanceStrategy, RebalanceDue, CooldownOver
  <2> QED
    BY <1>1, <2>2 DEF StrategyInv
<1>2. StrategyInv /\ [StrategyNext]_strategyVars
        => [Rebalanced => now >= lastTrade + strategy.cooldown]_strategyVars
  BY <1>1 DEF Rebalanced
<1> QED
  BY <1>2, StrategyInvariant, PTL DEF StrategySpec, RebalancesSpaced

\* A fund whose count is that of its listings and fits a u8 rebalances against all the
\* tokens it lists.
LEMMA FittingStrategyIsWhole ==
    ASSUME StrategyInv, StrategyFits
    PROVE  \/ Allocated = Listed
           \/ enabledCount >= CountModulus
           \/ enabledCount < Cardinality(Listed)
<1> SUFFICES ASSUME ~(enabledCount >= CountModulus), ~(enabledCount < Cardinality(Listed))
             PROVE  Allocated = Listed
  OBVIOUS
<1>1. /\ Allocated \subseteq Listed /\ IsFiniteSet(Listed)
      /\ enabledCount <= Cardinality(Listed)
      /\ enabledCount \in Nat /\ CountModulus \in Nat
      /\ enabledCount % CountModulus = Cardinality(Allocated)
  BY StrategyAssumption DEF StrategyFits, StrategyInv, FundInv, CountWithinListed, FundTypeOK
<1>2. Cardinality(Listed) \in Nat
  BY <1>1, FS_CardinalityType
<1>3. enabledCount = Cardinality(Listed) /\ enabledCount < CountModulus
  BY <1>1, <1>2
<1>4. enabledCount % CountModulus = enabledCount
  BY <1>1, <1>3, Z3
<1>5. Cardinality(Allocated) = Cardinality(Listed)
  BY <1>1, <1>3, <1>4
<1> QED
  BY <1>1, <1>5, FS_Subset

\* ... which is what every rebalance of every run of the fund does.
THEOREM WholeFundSeen == StrategySpec => RebalanceSeesWholeFund
<1> DEFINE Whole == \/ Allocated = Listed
                    \/ enabledCount >= CountModulus
                    \/ enabledCount < Cardinality(Listed)
<1>1. ASSUME StrategyInv, [StrategyNext]_strategyVars, tokens' # tokens
      PROVE  Whole
  <2>1. PICK m \in Mints, out \in Outs : RebalanceStrategy(m, out)
    BY <1>1, OnlyRebalancesTrade
  <2>2. StrategyFits
    BY <2>1 DEF RebalanceStrategy, RebalanceDue
  <2> QED
    BY <1>1, <2>2, FittingStrategyIsWhole
<1>2. StrategyInv /\ [StrategyNext]_strategyVars => [Rebalanced => Whole]_strategyVars
  BY <1>1 DEF Rebalanced
<1> QED
  BY <1>2, StrategyInvariant, PTL DEF StrategySpec, RebalanceSeesWholeFund

-----------------------------------------------------------------------------
(* What a rebalance may cost.                                              *)

\* The NAV of the listed tokens moves with the vault and the value of one token, when the
\* prices and the balances of the others stay.
LEMMA NavMoves ==
    ASSUME StrategyInv, StrategyInv', NEW m \in Listed,
           UNCHANGED <<whitelists, oracle>>, \A x \in Mints \ {m} : tokens'[x] = tokens[x]
    PROVE  /\ NavOver(Listed) \in Nat /\ NavOver(Listed)' \in Int
           /\ NavOver(Listed)' = NavOver(Listed) + (vault' - vault)
                + (LamportsFor(tokens'[m], listed[m]) - LamportsFor(tokens[m], listed[m]))
<1> DEFINE S == Listed
           f == [x \in S |-> ValueOf(x)]
           g == [x \in S |-> LamportsFor(tokens'[x], listed[x])]
<1>1. FundInv /\ IsFiniteSet(S) /\ vault \in Nat /\ vault' \in Nat
  BY DEF StrategyInv, FundInv, FundTypeOK
<1>2. \A x \in S : x \in Mints /\ tokens[x] \in Nat /\ tokens'[x] \in Nat
  BY DEF Listed, StrategyInv, FundInv, FundTypeOK
<1>3. f \in [S -> Nat] /\ g \in [S -> Nat]
  BY <1>1, <1>2, ValueNat DEF ValueOf
<1>4. f[m] = LamportsFor(tokens[m], listed[m]) /\ g[m] = LamportsFor(tokens'[m], listed[m])
      /\ \A x \in S \ {m} : g[x] = f[x]
  BY <1>2 DEF ValueOf
<1>5. Listed' = S /\ [x \in Listed |-> ValueOf(x)]' = g
  BY DEF whitelists, oracle, Listed, ValueOf, LamportsFor
<1>6. NavOver(Listed) = vault + SumFunction(f) /\ NavOver(Listed)' = vault' + SumFunction(g)
  BY <1>5 DEF NavOver
<1>7. SumFunction(f) \in Nat /\ SumFunction(g) \in Nat /\ f[m] \in Nat /\ g[m] \in Nat
  BY <1>1, <1>3, SumFunctionNat
<1> HIDE DEF f, g, S
<1>8. SumFunction(g) = SumFunction(f) + g[m] - f[m]
  BY <1>1, <1>3, <1>4, SumChanges DEF S
<1>9. \A n, n1, v, v1, s, s1, fm, gm \in Int :
        n = v + s /\ n1 = v1 + s1 /\ s1 = s + gm - fm => n1 = n + (v1 - v) + (gm - fm)
  OBVIOUS
<1>10. NavOver(Listed)' = NavOver(Listed) + (vault' - vault) + (g[m] - f[m])
  BY <1>1, <1>6, <1>7, <1>8, <1>9
<1> QED
  BY <1>1, <1>4, <1>6, <1>7, <1>10

\* A purchase: what it takes from the vault it brings back in tokens, less the loss.
LEMMA BuyLoss ==
    ASSUME StrategyInv, StrategyInv', NEW m \in Listed, UNCHANGED <<whitelists, oracle>>,
           NEW spend, NEW out, Bought(m, spend, out)
    PROVE  NavOver(Listed)' >= NavOver(Listed) - TradeLoss(m)
<1> DEFINE v0 == LamportsFor(tokens[m], listed[m])
           v1 == LamportsFor(tokens'[m], listed[m])
           vo == LamportsFor(out, listed[m])
           fee == FeeOf(spend, MaxSlippageBps)
           slack == (2 * price[listed[m]]) \div solPrice
           n0 == NavOver(Listed)
           n1 == NavOver(Listed)'
<1>1. FundInv /\ m \in Mints /\ tokens \in [Mints -> Nat] /\ tokens[m] \in Nat /\ vault \in Nat
  BY DEF StrategyInv, FundInv, FundTypeOK, Listed
<1>2. /\ spend \in Nat /\ out \in Nat \ {0} /\ vault >= spend /\ vault' = vault - spend
      /\ out >= ApplyMaxSlippage(TokensFor(spend, listed[m]), MaxSlippageBps)
      /\ tokens' = [tokens EXCEPT ![m] = @ + out]
  BY DEF Bought
<1>3. tokens'[m] = tokens[m] + out /\ \A x \in Mints \ {m} : tokens'[x] = tokens[x]
  BY <1>1, <1>2
<1>4. vo \in Nat /\ fee \in Nat /\ slack \in Nat /\ vo + fee + 3 + slack >= spend
  BY <1>1, <1>2, BuyFillWorth
<1>5. v0 \in Nat /\ v1 \in Nat /\ v0 + vo <= v1
  BY <1>1, <1>2, <1>3, ValueSplits
<1>6. n0 \in Nat /\ n1 \in Int /\ n1 = n0 + (vault' - vault) + (v1 - v0)
  BY <1>3, NavMoves
<1>7. TradeLoss(m) = fee + 3 + slack
  <2>1. tokens[m] - tokens'[m] = -out /\ ~(-out > 0) /\ vault - vault' = spend
    BY <1>1, <1>2, <1>3
  <2> QED
    BY <2>1 DEF TradeLoss
<1>8. vault' - vault = -spend
  BY <1>1, <1>2
<1> HIDE DEF v0, v1, vo, fee, slack, n0, n1
<1>9. \A a, b, c, d, e, f, g, h \in Int :
        a + b + 3 + c >= d /\ e + a <= f /\ h = g - d + (f - e) => h >= g - (b + 3 + c)
  OBVIOUS
<1>10. n1 = n0 - spend + (v1 - v0)
  BY <1>2, <1>5, <1>6, <1>8
<1>11. n1 >= n0 - (fee + 3 + slack)
  BY <1>2, <1>4, <1>5, <1>6, <1>9, <1>10
<1> QED
  BY <1>7, <1>11 DEF n0, n1

\* A sale: its tokens are gone, its proceeds reach the vault.
LEMMA SellLoss ==
    ASSUME StrategyInv, StrategyInv', NEW m \in Listed, UNCHANGED <<whitelists, oracle>>,
           NEW sold, NEW out, Sold(m, sold, out)
    PROVE  NavOver(Listed)' >= NavOver(Listed) - TradeLoss(m)
<1> DEFINE v0 == LamportsFor(tokens[m], listed[m])
           v1 == LamportsFor(tokens'[m], listed[m])
           vs == LamportsFor(sold, listed[m])
           fee == FeeOf(vs, MaxSlippageBps)
           slack == (2 * price[listed[m]]) \div solPrice
           n0 == NavOver(Listed)
           n1 == NavOver(Listed)'
<1>1. FundInv /\ m \in Mints /\ tokens \in [Mints -> Nat] /\ tokens[m] \in Nat /\ vault \in Nat
  BY DEF StrategyInv, FundInv, FundTypeOK, Listed
<1>2. /\ sold \in Nat \ {0} /\ out \in Nat /\ sold <= tokens[m] /\ vault' = vault + out
      /\ out >= ApplyMaxSlippage(LamportsFor(sold, listed[m]), MaxSlippageBps)
      /\ tokens' = [tokens EXCEPT ![m] = @ - sold]
  BY DEF Sold
<1>3. tokens'[m] = tokens[m] - sold /\ \A x \in Mints \ {m} : tokens'[x] = tokens[x]
  BY <1>1, <1>2
<1>4. vs \in Nat /\ fee \in Nat /\ slack \in Nat /\ out + fee + 1 >= vs
  BY <1>1, <1>2, SellFillWorth
<1>5. v0 \in Nat /\ v1 \in Nat /\ v0 <= v1 + vs + 1
  <2>1. tokens[m] - sold \in Nat /\ (tokens[m] - sold) + sold = tokens[m]
    BY <1>1, <1>2
  <2> QED
    BY <1>1, <1>2, <1>3, <2>1, ValueSplits
<1>6. n0 \in Nat /\ n1 \in Int /\ n1 = n0 + (vault' - vault) + (v1 - v0)
  BY <1>3, NavMoves
<1>7. TradeLoss(m) = fee + 3 + slack
  <2>1. tokens[m] - tokens'[m] = sold /\ sold > 0
    BY <1>1, <1>2, <1>3
  <2> QED
    BY <2>1 DEF TradeLoss
<1>8. vault' - vault = out
  BY <1>1, <1>2
<1> HIDE DEF v0, v1, vs, fee, slack, n0, n1
<1>9. \A a, b, c, d, e, f, g, h \in Int :
        a + b + 1 >= d /\ e <= f + d + 1 /\ c >= 0 /\ h = g + a + (f - e)
           => h >= g - (b + 3 + c)
  OBVIOUS
<1>10. n1 = n0 + out + (v1 - v0)
  BY <1>2, <1>5, <1>6, <1>8
<1>11. n1 >= n0 - (fee + 3 + slack)
  BY <1>2, <1>4, <1>5, <1>6, <1>9, <1>10
<1> QED
  BY <1>7, <1>11 DEF n0, n1

\* No rebalance lowers the NAV by more than the tolerated slippage of the amount it trades
\* and a few roundings, whatever the swap leaves unspent.
THEOREM RebalanceLossBoundedHolds == StrategySpec => RebalanceLossBounded
<1> DEFINE Bounded == \A m \in Listed : tokens'[m] # tokens[m]
                        => NavOver(Listed)' >= NavOver(Listed) - TradeLoss(m)
<1>1. ASSUME StrategyInv, StrategyInv', [StrategyNext]_strategyVars,
             NEW m \in Listed, tokens'[m] # tokens[m]
      PROVE  NavOver(Listed)' >= NavOver(Listed) - TradeLoss(m)
  <2>1. PICK x \in Mints, out \in Outs : RebalanceStrategy(x, out)
    BY <1>1, OnlyRebalancesTrade
  <2>2. x = m
    BY <1>1, <2>1, OneTokenMoves DEF Listed
  <2>3. UNCHANGED <<whitelists, oracle>>
    BY <2>1 DEF RebalanceStrategy
  <2>4. CASE \E spend : Bought(m, spend, out)
    BY <1>1, <2>3, <2>4, BuyLoss
  <2>5. CASE \E sold : Sold(m, sold, out)
    BY <1>1, <2>3, <2>5, SellLoss
  <2> QED
    BY <1>1, <2>1, <2>2, <2>4, <2>5, RebalanceTrades
<1>2. StrategyInv /\ StrategyInv' /\ [StrategyNext]_strategyVars => [Bounded]_strategyVars
  BY <1>1
<1>3. RebalanceLossBounded <=> [][Bounded]_strategyVars
  BY DEF RebalanceLossBounded
<1> HIDE DEF Bounded
<1> QED
  BY <1>2, <1>3, StrategyInvariant, PTL DEF StrategySpec

-----------------------------------------------------------------------------
(* Where a rebalance may leave its token.                                  *)

\* Tokens worth some lamports, and some more, are worth these and those and a lamport.
LEMMA CapWorth ==
    ASSUME FundInv, NEW m \in Listed, NEW d \in Nat, NEW dust \in Nat, NEW x \in Nat,
           x <= TokensFor(d, listed[m]) + dust
    PROVE  /\ LamportsFor(x, listed[m]) \in Nat /\ LamportsFor(dust, listed[m]) \in Nat
           /\ LamportsFor(x, listed[m]) <= d + LamportsFor(dust, listed[m]) + 1
<1> DEFINE cap == TokensFor(d, listed[m])
           p == price[listed[m]]
<1>1. cap \in Nat
  <2>1. p \in Nat \ {0} /\ solPrice \in Nat
    BY PricesPositive
  <2> HIDE DEF p
  <2>2. d * solPrice \in Nat
    BY <2>1
  <2>3. (d * solPrice) \div p \in Nat
    BY <2>1, <2>2, DivisionRoundsDown
  <2> QED
    BY <2>3 DEF TokensFor, p
<1>2. LamportsFor(cap, listed[m]) <= d
  BY <1>1, BoughtWorthAtMost
<1>3. x <= cap + dust
  OBVIOUS
<1> HIDE DEF cap
<1>4. cap + dust \in Nat
  BY <1>1
<1>5. LamportsFor(x, listed[m]) <= LamportsFor(cap + dust, listed[m])
  BY <1>3, <1>4, ValueGrows
<1>6. /\ LamportsFor(cap, listed[m]) \in Nat /\ LamportsFor(dust, listed[m]) \in Nat
      /\ LamportsFor(cap + dust, listed[m]) \in Nat
      /\ LamportsFor(cap + dust, listed[m])
           <= LamportsFor(cap, listed[m]) + LamportsFor(dust, listed[m]) + 1
  BY <1>1, ValueSplits
<1>7. LamportsFor(x, listed[m]) \in Nat
  BY ValueNat
<1> QED
  BY <1>2, <1>5, <1>6, <1>7

\* A sale leaves the target, less the dust.
LEMMA SaleLeavesTarget ==
    ASSUME StrategyInv, StrategyFits, NEW m \in Allocated, UNCHANGED <<whitelists, oracle>>,
           NEW sold, NEW out, Sold(m, sold, out)
    PROVE  /\ ValueOf(m)' >= TargetOf(m) - LamportsFor(SellDust, listed[m]) - 2
           /\ tokens'[m] < tokens[m]
<1> DEFINE v0 == ValueOf(m)
           v1 == LamportsFor(tokens[m] - sold, listed[m])
           vs == LamportsFor(sold, listed[m])
           vd == LamportsFor(SellDust, listed[m])
           target == TargetOf(m)
<1>1. /\ FundInv /\ m \in Listed /\ m \in Mints /\ tokens \in [Mints -> Nat]
      /\ tokens[m] \in Nat /\ target \in Nat /\ v0 \in Nat /\ SellDust \in Nat
  BY RebalanceNumbers, StrategyAssumption DEF StrategyInv, FundInv, FundTypeOK
<1>2. /\ sold \in Nat \ {0} /\ sold <= tokens[m] /\ Deviation(m) \in Nat
      /\ sold <= TokensFor(Deviation(m), listed[m]) + SellDust
      /\ tokens' = [tokens EXCEPT ![m] = @ - sold]
  BY DEF Sold
<1>3. tokens'[m] = tokens[m] - sold /\ tokens[m] - sold \in Nat
      /\ (tokens[m] - sold) + sold = tokens[m]
  BY <1>1, <1>2
<1>4. ValueOf(m)' = v1
  BY <1>3 DEF ValueOf, LamportsFor, whitelists, oracle
<1>5. vs \in Nat /\ vd \in Nat /\ vs <= Deviation(m) + vd + 1
  BY <1>1, <1>2, CapWorth
<1>6. v1 \in Nat /\ v0 <= v1 + vs + 1
  BY <1>1, <1>2, <1>3, ValueSplits DEF ValueOf
<1>7. Deviation(m) = v0 - target
  BY DEF Deviation
<1> HIDE DEF v0, v1, vs, vd, target
<1>8. v1 >= target - vd - 2
  BY <1>1, <1>5, <1>6, <1>7
<1> QED
  BY <1>1, <1>2, <1>3, <1>4, <1>8 DEF vd, target

\* A purchase at the oracle's price or worse does not exceed it.
LEMMA PurchaseWithinTarget ==
    ASSUME StrategyInv, StrategyFits, NEW m \in Allocated, UNCHANGED <<whitelists, oracle>>,
           NEW spend, NEW out, Bought(m, spend, out)
    PROVE  /\ tokens'[m] - tokens[m] <= TokensFor(vault - vault', listed[m])
                => ValueOf(m)' <= TargetOf(m) + 1
           /\ tokens'[m] > tokens[m]
<1> DEFINE v0 == ValueOf(m)
           v1 == LamportsFor(tokens[m] + out, listed[m])
           vo == LamportsFor(out, listed[m])
           target == TargetOf(m)
<1>1. /\ FundInv /\ m \in Listed /\ m \in Mints /\ tokens \in [Mints -> Nat]
      /\ tokens[m] \in Nat /\ target \in Nat /\ v0 \in Nat /\ vault \in Nat
  BY RebalanceNumbers DEF StrategyInv, FundInv, FundTypeOK
<1>2. /\ spend \in Nat /\ out \in Nat \ {0} /\ vault >= spend /\ vault' = vault - spend
      /\ tokens' = [tokens EXCEPT ![m] = @ + out] /\ Deviation(m) = -spend
  BY DEF Bought
<1>3. tokens'[m] = tokens[m] + out /\ tokens'[m] - tokens[m] = out /\ vault - vault' = spend
      /\ tokens'[m] > tokens[m]
  BY <1>1, <1>2
<1>4. ValueOf(m)' = v1
  BY <1>3 DEF ValueOf, LamportsFor, whitelists, oracle
<1>5. v1 \in Nat /\ vo \in Nat /\ v1 <= v0 + vo + 1
  BY <1>1, <1>2, ValueSplits DEF ValueOf
<1>6. v0 - target = -spend
  BY <1>2 DEF Deviation
<1>7. ASSUME out <= TokensFor(spend, listed[m]) PROVE v1 <= target + 1
  <2>1. vo <= spend
    BY <1>1, <1>2, <1>7, BoughtWorthAtMost
  <2> HIDE DEF v0, v1, vo, target
  <2> QED
    BY <1>1, <1>2, <1>5, <1>6, <2>1
<1> HIDE DEF v0, v1, vo, target
<1> QED
  BY <1>3, <1>4, <1>7 DEF target

\* No rebalance carries its token to the other side of the target by more than the dust of
\* a sale and roundings.
THEOREM NoOvershootHolds == StrategySpec => NoOvershoot
<1> DEFINE Within ==
      \A m \in Allocated :
        /\ tokens'[m] < tokens[m]
            => ValueOf(m)' >= TargetOf(m) - LamportsFor(SellDust, listed[m]) - 2
        /\ tokens'[m] > tokens[m]
              /\ tokens'[m] - tokens[m] <= TokensFor(vault - vault', listed[m])
            => ValueOf(m)' <= TargetOf(m) + 1
<1>1. ASSUME StrategyInv, [StrategyNext]_strategyVars, NEW m \in Allocated, tokens'[m] # tokens[m]
      PROVE  /\ tokens'[m] < tokens[m]
                  => ValueOf(m)' >= TargetOf(m) - LamportsFor(SellDust, listed[m]) - 2
             /\ tokens'[m] > tokens[m]
                    /\ tokens'[m] - tokens[m] <= TokensFor(vault - vault', listed[m])
                  => ValueOf(m)' <= TargetOf(m) + 1
  <2>1. PICK x \in Mints, out \in Outs : RebalanceStrategy(x, out)
    BY <1>1, OnlyRebalancesTrade
  <2>2. m \in Mints
    BY <1>1 DEF StrategyInv, IsStrategy, Allocated
  <2>3. x = m
    BY <1>1, <2>1, <2>2, OneTokenMoves
  <2>4. UNCHANGED <<whitelists, oracle>> /\ StrategyFits
    BY <2>1 DEF RebalanceStrategy, RebalanceDue
  <2>5. tokens[m] \in Nat
    BY <2>2, <1>1 DEF StrategyInv, FundInv, FundTypeOK
  <2>6. ASSUME NEW spend, Bought(m, spend, out)
        PROVE  /\ tokens'[m] - tokens[m] <= TokensFor(vault - vault', listed[m])
                    => ValueOf(m)' <= TargetOf(m) + 1
               /\ tokens'[m] > tokens[m] /\ tokens'[m] \in Nat
    <3>1. tokens'[m] \in Nat
      BY <2>2, <2>5, <2>6, <1>1 DEF Bought, StrategyInv, FundInv, FundTypeOK
    <3> QED
      BY <1>1, <2>4, <2>6, <3>1, PurchaseWithinTarget
  <2>7. ASSUME NEW sold, Sold(m, sold, out)
        PROVE  /\ ValueOf(m)' >= TargetOf(m) - LamportsFor(SellDust, listed[m]) - 2
               /\ tokens'[m] < tokens[m] /\ tokens'[m] \in Nat
    <3>1. tokens'[m] \in Nat
      BY <2>2, <2>5, <2>7, <1>1 DEF Sold, StrategyInv, FundInv, FundTypeOK
    <3> QED
      BY <1>1, <2>4, <2>7, <3>1, SaleLeavesTarget
  <2>8. \A a, b \in Nat : a < b => ~(a > b)
    OBVIOUS
  <2> QED
    BY <1>1, <2>1, <2>3, <2>5, <2>6, <2>7, <2>8, RebalanceTrades
<1>2. StrategyInv /\ [StrategyNext]_strategyVars => [Within]_strategyVars
  <2> SUFFICES ASSUME StrategyInv, [StrategyNext]_strategyVars, NEW m \in Allocated
               PROVE  /\ tokens'[m] < tokens[m]
                          => ValueOf(m)' >= TargetOf(m) - LamportsFor(SellDust, listed[m]) - 2
                      /\ tokens'[m] > tokens[m]
                            /\ tokens'[m] - tokens[m] <= TokensFor(vault - vault', listed[m])
                          => ValueOf(m)' <= TargetOf(m) + 1
    OBVIOUS
  <2>1. CASE tokens'[m] # tokens[m]
    BY <1>1, <2>1
  <2>2. CASE tokens'[m] = tokens[m]
    <3>1. tokens[m] \in Nat
      BY DEF StrategyInv, IsStrategy, Allocated, FundInv, FundTypeOK
    <3>2. ~(tokens'[m] < tokens[m]) /\ ~(tokens'[m] > tokens[m])
      BY <2>2, <3>1
    <3> QED
      BY <3>2
  <2> QED
    BY <2>1, <2>2
<1>3. NoOvershoot <=> [][Within]_strategyVars
  BY DEF NoOvershoot
<1> HIDE DEF Within
<1> QED
  BY <1>2, <1>3, StrategyInvariant, PTL DEF StrategySpec
=============================================================================
