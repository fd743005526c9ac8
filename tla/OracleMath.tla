----------------------------- MODULE OracleMath -----------------------------
(***************************************************************************)
(* From two Pyth feeds to lamports: which prices the program accepts, and  *)
(* the integer arithmetic with powers of ten that turns them into the      *)
(* value of a balance (compute_nav_lamports), the output a swap has to     *)
(* reach and the trigger of a limit order.                                 *)
(*                                                                         *)
(* The other modules take prices in one exponent and always fresh; this    *)
(* one checks what that leaves out.  The state is what the two feeds show  *)
(* and the clock: the functions are checked in every state of the feeds.   *)
(***************************************************************************)
EXTENDS FundMath

CONSTANTS
    LamportsPerSol,    \* LAMPORTS_PER_SOL
    MaxAge,            \* ORACLE_MAX_AGE_SECS
    MaxConfBps,        \* MAX_CONF_BPS
    CastModulus,       \* 2^64: what `as u64` keeps of a 128-bit result
    \* bounds of the instance that TLC explores
    Prices,            \* prices and
    Confidences,       \* confidence intervals that a feed may show
    MaxExpo,           \* exponents of feeds and of limit prices: -MaxExpo .. 0
    Amounts,           \* balances and order amounts
    LimitPrices,       \* limit prices
    MaxTime            \* the clock stops here

ASSUME OracleMathAssumption ==
    /\ {LamportsPerSol, CastModulus} \subseteq Nat \ {0}
    /\ {MaxAge, MaxExpo, MaxTime} \subseteq Nat
    /\ MaxConfBps \in 0 .. BpsDenominator
    /\ Prices \subseteq Nat /\ Confidences \subseteq Nat
    /\ Amounts \subseteq Nat /\ LimitPrices \subseteq Nat \ {0}

VARIABLES
    now,     \* Clock::get()?.unix_timestamp
    feed     \* feed["token"] and feed["sol"]: what the price accounts show

oracleVars == <<now, feed>>

Expos == -MaxExpo .. 0
Decimals == 0 .. MaxExpo    \* decimals of a mint

\* Both feeds exist and were never published.
OracleInit ==
    /\ now = 0
    /\ feed = [f \in {"token", "sol"} |-> [price |-> 0, conf |-> 0, expo |-> 0, time |-> 0]]

\* A publisher's clock need not agree with the chain's: a price may come late, or
\* carry a time the chain has not reached.
Publish(f, price, conf, expo, time) ==
    /\ time >= feed[f].time
    /\ feed' = [feed EXCEPT ![f] = [price |-> price, conf |-> conf, expo |-> expo,
                                    time |-> time]]
    /\ UNCHANGED now

Tick ==
    /\ now < MaxTime
    /\ now' = now + 1
    /\ UNCHANGED feed

OracleNext ==
    \/ \E f \in {"token", "sol"}, price \in Prices, conf \in Confidences,
          expo \in Expos, time \in 0 .. MaxTime : Publish(f, price, conf, expo, time)
    \/ Tick

OracleSpec == OracleInit /\ [][OracleNext]_oracleVars

-----------------------------------------------------------------------------
(* load_pyth_price.                                                        *)

\* Mistake (for the mutation runs): only prices that are too old are refused.
NotTooOld(p) == now - p.time <= MaxAge

\* get_price_no_older_than takes the distance of the two times, in both directions.
Recent(p) == now - p.time <= MaxAge /\ p.time - now <= MaxAge

\* Mistake: any confidence interval will do.
AnyConfidence(p) == p.price > 0

Confident(p) == p.price > 0 /\ p.conf <= FeeOf(p.price, MaxConfBps)

Readable(p) == Recent(p) /\ Confident(p)

-----------------------------------------------------------------------------
(* The arithmetic.  Intermediate results are i128 with checked operations;  *)
(* only the casts of the results are bounded here.                          *)

CastU64(x) == x % CastModulus

\* pow10_i128 multiplies by ten in a loop.
Pow10[exp \in Nat] == IF exp = 0 THEN 1 ELSE 10 * Pow10[exp - 1]

\* numerator * 10^exp / denominator: the scale goes where it is an integer.
Scaled(numerator, denominator, exp) ==
    IF exp >= 0 THEN (numerator * Pow10[exp]) \div denominator
                ELSE numerator \div (denominator * Pow10[-exp])

\* Mistake: the token's decimals are taken for part of its exponent.
DecimalsAdded(amount, decimals, token, sol) ==
    CastU64(Scaled(amount * token.price * LamportsPerSol, sol.price,
                   token.expo + decimals - sol.expo))

\* token_value_in_lamports, and expected_sol_out_from_token, which is the same.
TokenValueInLamports(amount, decimals, token, sol) ==
    CastU64(Scaled(amount * token.price * LamportsPerSol, sol.price,
                   token.expo - decimals - sol.expo))

\* Mistake: rounds to the next unit.
TokensRoundedUp(lamports, decimals, token, sol) ==
    1 + Scaled(lamports * sol.price * Pow10[decimals], token.price * LamportsPerSol,
               sol.expo - token.expo)

\* expected_token_out_from_sol.
ExpectedTokenOut(lamports, decimals, token, sol) ==
    CastU64(Scaled(lamports * sol.price * Pow10[decimals], token.price * LamportsPerSol,
                   sol.expo - token.expo))

\* Mistake: the two branches are swapped.
ScaledTheOtherWay(price, expo, target) ==
    IF expo >= target THEN price \div Pow10[expo - target] ELSE price * Pow10[target - expo]

\* scale_price: a price in another exponent, rounded down when it is coarser.
ScalePrice(price, expo, target) ==
    IF expo >= target THEN price * Pow10[expo - target] ELSE price \div Pow10[target - expo]

\* The trigger of a limit order whose limit price has the exponent `expo`.
Triggered(side, limitPrice, expo, p) ==
    LET scaled == ScalePrice(p.price, p.expo, expo)
    IN  \/ side = "BUY" /\ scaled <= limitPrice
        \/ side = "SELL" /\ scaled >= limitPrice

-----------------------------------------------------------------------------
(* Properties.                                                             *)

BothReadable == Readable(feed["token"]) /\ Readable(feed["sol"])

\* The exact value of a balance as a fraction of two naturals, with every exponent
\* moved up by MaxExpo: token price * amount / 10^decimals over the SOL price.
ExactNumerator(amount, price) ==
    amount * price * LamportsPerSol * Pow10[MaxExpo + feed["token"].expo]
ExactDenominator(decimals, price) == price * Pow10[MaxExpo + feed["sol"].expo + decimals]

\* The value of a balance is the exact one rounded down, whatever the exponents of
\* the two feeds and the decimals of the mint, as long as it fits 64 bits; beyond,
\* the cast may drop most of it, but never adds to it.
ValueExact ==
    BothReadable => \A amount \in Amounts, decimals \in Decimals :
        LET value == TokenValueInLamports(amount, decimals, feed["token"], feed["sol"])
            exact == ExactNumerator(amount, feed["token"].price)
                        \div ExactDenominator(decimals, feed["sol"].price)
        IN  IF exact < CastModulus THEN value = exact ELSE value < exact

\* Asking the oracle what SOL buys and then what that sells for, or the other way
\* round, never gains, with any exponents and decimals: the two functions, written
\* separately, invert each other up to rounding and both round down.
RoundTripsNeverGain ==
    BothReadable => \A amount \in Amounts, decimals \in Decimals :
        LET token == feed["token"]
            sol == feed["sol"]
            bought == ExpectedTokenOut(amount, decimals, token, sol)
            sold == TokenValueInLamports(amount, decimals, token, sol)
        IN  /\ TokenValueInLamports(bought, decimals, token, sol) <= amount
            /\ ExpectedTokenOut(sold, decimals, token, sol) <= amount

\* A SELL order is triggered exactly when the price has reached its limit.  A BUY
\* order is never missed at its limit or below, but it may be triggered above it, by
\* less than one unit of the exponent its manager chose: scale_price rounds down.
TriggerHonest ==
    Readable(feed["token"]) => \A limitPrice \in LimitPrices, expo \in Expos :
        LET p == feed["token"]
            price == p.price * Pow10[MaxExpo + p.expo]
            limit == limitPrice * Pow10[MaxExpo + expo]
            unit == Pow10[MaxExpo + expo]
        IN  /\ Triggered("SELL", limitPrice, expo, p) <=> price >= limit
            /\ price <= limit => Triggered("BUY", limitPrice, expo, p)
            /\ Triggered("BUY", limitPrice, expo, p) => price < limit + unit

\* The two prices of one valuation were published within twice the tolerated age
\* of each other: no value mixes a price of today with an older or a later one.
PricesContemporary ==
    BothReadable =>
        LET apart == feed["token"].time - feed["sol"].time
        IN  apart <= 2 * MaxAge /\ -apart <= 2 * MaxAge

\* What the confidence check is worth: if both feeds are off by their whole interval
\* in the unfavourable direction, a value the NAV counts exceeds the real one by a
\* factor of at most (1 + c) / (1 - c), c being the tolerated confidence.
ConfidenceBoundsError ==
    BothReadable => \A amount \in Amounts, decimals \in Decimals :
        LET token == feed["token"]
            sol == feed["sol"]
            value == TokenValueInLamports(amount, decimals, token, sol)
        IN  value * ExactDenominator(decimals, sol.price + sol.conf) * (BpsDenominator - MaxConfBps)
              <= ExactNumerator(amount, token.price - token.conf) * (BpsDenominator + MaxConfBps)
=============================================================================
