---------------------------- MODULE OracleProofs -----------------------------
(***************************************************************************)
(* Proofs about the oracle's arithmetic (OracleMath), for every exponent   *)
(* and price and every width of the casts.                                 *)
(*                                                                         *)
(* The powers of ten come first: that the loop's equation has a solution,  *)
(* and the law of exponents.                                               *)
(***************************************************************************)
EXTENDS OracleMath, FundMathProofs

-----------------------------------------------------------------------------
(* Powers of ten.                                                          *)

\* f solves the equation of pow10_i128 on the exponents D.
Powers(f, D) == f = [n \in D |-> IF n = 0 THEN 1 ELSE 10 * f[n - 1]]

\* The equation at one exponent.
LEMMA PowersPoint ==
    ASSUME NEW f, NEW D, Powers(f, D), NEW n \in D
    PROVE  f[n] = IF n = 0 THEN 1 ELSE 10 * f[n - 1]
<1> DEFINE g == [k \in D |-> IF k = 0 THEN 1 ELSE 10 * f[k - 1]]
<1>1. f = g
  BY DEF Powers
<1>2. g[n] = IF n = 0 THEN 1 ELSE 10 * f[n - 1]
  OBVIOUS
<1> QED
  BY <1>1, <1>2

\* Two solutions agree where both are defined.
LEMMA PowersAgree ==
    ASSUME NEW j \in Nat, NEW f, Powers(f, 0 .. j), NEW k \in Nat, NEW g, Powers(g, 0 .. k)
    PROVE  \A n \in Nat : n <= j /\ n <= k => f[n] = g[n]
<1> DEFINE N == {n \in Nat : n <= j /\ n <= k => f[n] = g[n]}
<1>1. 0 \in N
  <2>1. 0 \in 0 .. j /\ 0 \in 0 .. k
    OBVIOUS
  <2>2. f[0] = 1 /\ g[0] = 1
    BY <2>1, PowersPoint
  <2> QED
    BY <2>2
<1>2. ASSUME NEW n \in N PROVE n + 1 \in N
  <2> SUFFICES ASSUME n + 1 <= j, n + 1 <= k PROVE f[n + 1] = g[n + 1]
    OBVIOUS
  <2>1. n \in Nat /\ f[n] = g[n] /\ n + 1 \in 0 .. j /\ n + 1 \in 0 .. k
    OBVIOUS
  <2>2. f[n + 1] = IF n + 1 = 0 THEN 1 ELSE 10 * f[(n + 1) - 1]
    BY <2>1, PowersPoint
  <2>3. g[n + 1] = IF n + 1 = 0 THEN 1 ELSE 10 * g[(n + 1) - 1]
    BY <2>1, PowersPoint
  <2>4. n + 1 # 0 /\ (n + 1) - 1 = n
    BY <2>1
  <2> QED
    BY <2>1, <2>2, <2>3, <2>4
<1> HIDE DEF N
<1>3. N = Nat
  <2>1. N \in SUBSET Nat
    BY DEF N
  <2> QED
    BY <1>1, <1>2, <2>1, NatSetInduction
<1> QED
  BY <1>3 DEF N

\* There is a solution up to any exponent.
LEMMA PowersUpTo == \A k \in Nat : \E f : Powers(f, 0 .. k)
<1> DEFINE N == {k \in Nat : \E f : Powers(f, 0 .. k)}
<1>1. 0 \in N
  <2> DEFINE f == [n \in 0 .. 0 |-> 1]
  <2>1. \A n \in 0 .. 0 : n = 0
    OBVIOUS
  <2>2. f = [n \in 0 .. 0 |-> IF n = 0 THEN 1 ELSE 10 * f[n - 1]]
    BY <2>1
  <2>3. Powers(f, 0 .. 0)
    BY <2>2 DEF Powers
  <2> QED
    BY <2>3
<1>2. ASSUME NEW k \in N PROVE k + 1 \in N
  <2>0. k \in Nat /\ k + 1 \in Nat
    OBVIOUS
  <2>1. PICK f : Powers(f, 0 .. k)
    OBVIOUS
  <2> DEFINE g == [n \in 0 .. k + 1 |-> IF n = 0 THEN 1 ELSE 10 * f[n - 1]]
  <2>2. \A n \in 0 .. k : g[n] = f[n]
    <3>1. \A n \in 0 .. k : n \in 0 .. k + 1
      BY <2>0
    <3>2. \A n \in 0 .. k : f[n] = IF n = 0 THEN 1 ELSE 10 * f[n - 1]
      BY <2>1, PowersPoint
    <3> QED
      BY <3>1, <3>2
  <2>3. \A n \in 0 .. k + 1 : n # 0 => n - 1 \in 0 .. k
    BY <2>0
  <2>4. \A n \in 0 .. k + 1 : (IF n = 0 THEN 1 ELSE 10 * f[n - 1])
                                = (IF n = 0 THEN 1 ELSE 10 * g[n - 1])
    BY <2>2, <2>3
  <2>5. g = [n \in 0 .. k + 1 |-> IF n = 0 THEN 1 ELSE 10 * g[n - 1]]
    <3> DEFINE h == [n \in 0 .. k + 1 |-> IF n = 0 THEN 1 ELSE 10 * g[n - 1]]
    <3>1. \A n \in 0 .. k + 1 : g[n] = h[n]
      BY <2>4
    <3> QED
      BY <3>1
  <2> HIDE DEF g
  <2>6. Powers(g, 0 .. k + 1)
    BY <2>5 DEF Powers
  <2> QED
    BY <2>0, <2>6
<1> HIDE DEF N
<1>3. N = Nat
  <2>1. N \in SUBSET Nat
    BY DEF N
  <2> QED
    BY <1>1, <1>2, <2>1, NatSetInduction
<1> QED
  BY <1>3 DEF N

\* Put together, they solve it for all exponents.
LEMMA PowersExist == \E f : Powers(f, Nat)
<1> DEFINE up == [k \in Nat |-> CHOOSE f : Powers(f, 0 .. k)]
           g == [n \in Nat |-> up[n][n]]
<1>1. \A k \in Nat : Powers(up[k], 0 .. k)
  BY PowersUpTo
<1> HIDE DEF up
<1>2. \A n \in Nat : g[n] = IF n = 0 THEN 1 ELSE 10 * g[n - 1]
  <2> TAKE n \in Nat
  <2>1. n \in 0 .. n
    OBVIOUS
  <2>2. up[n][n] = IF n = 0 THEN 1 ELSE 10 * up[n][n - 1]
    BY <1>1, <2>1, PowersPoint
  <2>3. n # 0 => up[n][n - 1] = up[n - 1][n - 1]
    <3> SUFFICES ASSUME n # 0 PROVE up[n][n - 1] = up[n - 1][n - 1]
      OBVIOUS
    <3>1. n - 1 \in Nat /\ n - 1 <= n /\ n - 1 <= n - 1
      OBVIOUS
    <3>2. Powers(up[n], 0 .. n) /\ Powers(up[n - 1], 0 .. n - 1)
      BY <1>1, <3>1
    <3> QED
      BY <3>1, <3>2, PowersAgree
  <2>4. n # 0 => n - 1 \in Nat
    OBVIOUS
  <2> QED
    BY <2>2, <2>3, <2>4
<1>3. g = [n \in Nat |-> IF n = 0 THEN 1 ELSE 10 * g[n - 1]]
  <2> DEFINE h == [n \in Nat |-> IF n = 0 THEN 1 ELSE 10 * g[n - 1]]
  <2>1. \A n \in Nat : g[n] = h[n]
    BY <1>2
  <2> QED
    BY <2>1
<1> HIDE DEF g
<1>4. Powers(g, Nat)
  BY <1>3 DEF Powers
<1> QED
  BY <1>4

\* The equation of the loop, which Pow10 satisfies.
LEMMA Pow10Point == Pow10[0] = 1 /\ \A n \in Nat : Pow10[n + 1] = 10 * Pow10[n]
<1>1. Powers(Pow10, Nat)
  BY PowersExist DEF Powers, Pow10
<1> HIDE DEF Pow10
<1>2. \A n \in Nat : Pow10[n] = IF n = 0 THEN 1 ELSE 10 * Pow10[n - 1]
  BY <1>1, PowersPoint
<1>3. \A n \in Nat : n + 1 \in Nat /\ n + 1 # 0 /\ (n + 1) - 1 = n
  OBVIOUS
<1>4. Pow10[0] = 1
  BY <1>2
<1>5. \A n \in Nat : Pow10[n + 1] = 10 * Pow10[n]
  BY <1>2, <1>3
<1> QED
  BY <1>4, <1>5

\* Powers of ten are positive.
LEMMA Pow10Positive == \A n \in Nat : Pow10[n] \in Nat \ {0}
<1> DEFINE N == {n \in Nat : Pow10[n] \in Nat \ {0}}
<1> HIDE DEF Pow10
<1>1. 0 \in N
  BY Pow10Point
<1>2. ASSUME NEW n \in N PROVE n + 1 \in N
  <2>1. n \in Nat /\ Pow10[n] \in Nat \ {0} /\ Pow10[n + 1] = 10 * Pow10[n]
    BY Pow10Point
  <2> QED
    BY <2>1
<1> HIDE DEF N
<1>3. N = Nat
  <2>1. N \in SUBSET Nat
    BY DEF N
  <2> QED
    BY <1>1, <1>2, <2>1, NatSetInduction
<1> QED
  BY <1>3 DEF N

\* The law of exponents.
LEMMA Pow10Adds == \A a, b \in Nat : Pow10[a + b] = Pow10[a] * Pow10[b]
<1> SUFFICES ASSUME NEW a \in Nat PROVE \A b \in Nat : Pow10[a + b] = Pow10[a] * Pow10[b]
  OBVIOUS
<1> DEFINE N == {b \in Nat : Pow10[a + b] = Pow10[a] * Pow10[b]}
<1> HIDE DEF Pow10
<1>1. 0 \in N
  <2>1. a + 0 = a /\ Pow10[0] = 1 /\ Pow10[a] \in Nat
    BY Pow10Point, Pow10Positive
  <2> QED
    BY <2>1
<1>2. ASSUME NEW b \in N PROVE b + 1 \in N
  <2>1. b \in Nat /\ a + b \in Nat /\ a + (b + 1) = (a + b) + 1
    OBVIOUS
  <2>2. Pow10[(a + b) + 1] = 10 * Pow10[a + b] /\ Pow10[b + 1] = 10 * Pow10[b]
    BY <2>1, Pow10Point
  <2>3. Pow10[a + b] = Pow10[a] * Pow10[b]
    OBVIOUS
  <2>4. Pow10[a] \in Nat /\ Pow10[b] \in Nat
    BY <2>1, Pow10Positive
  <2>5. \A x, y \in Nat : 10 * (x * y) = x * (10 * y)
    OBVIOUS
  <2>6. Pow10[a + (b + 1)] = Pow10[a] * Pow10[b + 1]
    BY <2>1, <2>2, <2>3, <2>4, <2>5
  <2> QED
    BY <2>1, <2>6
<1> HIDE DEF N
<1>3. N = Nat
  <2>1. N \in SUBSET Nat
    BY DEF N
  <2> QED
    BY <1>1, <1>2, <2>1, NatSetInduction
<1> QED
  BY <1>3 DEF N

-----------------------------------------------------------------------------
(* Divisions and casts.                                                    *)

\* A common factor of a fraction cancels, rounded down or not.
LEMMA FractionCancels ==
    ASSUME NEW x \in Nat, NEW y \in Nat \ {0}, NEW k \in Nat \ {0}
    PROVE  (x * k) \div (y * k) = x \div y
<1> DEFINE q == x \div y
           r == (x * k) \div (y * k)
<1>1. q \in Nat /\ q * y <= x /\ x < q * y + y
  BY DivisionRoundsDown
<1>2. x * k \in Nat /\ y * k \in Nat \ {0}
  OBVIOUS
<1>3. r \in Nat /\ r * (y * k) <= x * k /\ x * k < r * (y * k) + y * k
  BY <1>2, DivisionRoundsDown
<1> HIDE DEF q, r
<1>4. (q * y) * k <= x * k /\ x * k < (q * y + y) * k
  BY <1>1
<1>5. (q * y) * k = q * (y * k) /\ (q * y + y) * k = (q + 1) * (y * k)
      /\ r * (y * k) + y * k = (r + 1) * (y * k)
  BY <1>1, <1>3
<1>6. q * (y * k) < (r + 1) * (y * k) /\ r * (y * k) < (q + 1) * (y * k)
  <2> DEFINE z == y * k
             w == x * k
  <2>1. q * z \in Nat /\ r * z \in Nat /\ w \in Nat /\ (r + 1) * z \in Nat /\ (q + 1) * z \in Nat
    BY <1>1, <1>2, <1>3
  <2>2. q * z <= w /\ w < (r + 1) * z /\ r * z <= w /\ w < (q + 1) * z
    BY <1>3, <1>4, <1>5
  <2> HIDE DEF z, w
  <2>3. q * z < (r + 1) * z /\ r * z < (q + 1) * z
    BY <2>1, <2>2
  <2> QED
    BY <2>3 DEF z
<1>7. q < r + 1 /\ r < q + 1
  BY <1>1, <1>2, <1>3, <1>6, FactorCancels
<1> QED
  BY <1>1, <1>3, <1>7 DEF q, r

\* What is at most c times the denominator is at most c after the division.
LEMMA DivisionAtMost ==
    ASSUME NEW a \in Nat, NEW b \in Nat \ {0}, NEW c \in Nat, a <= c * b
    PROVE  a \div b <= c
<1> DEFINE q == a \div b
<1>1. q \in Nat /\ q * b <= a
  BY DivisionRoundsDown
<1> HIDE DEF q
<1>2. q * b < (c + 1) * b
  BY <1>1
<1>3. q < c + 1
  BY <1>1, <1>2, FactorCancels
<1> QED
  BY <1>1, <1>3 DEF q

\* A cast keeps what fits, and never adds.
LEMMA CastOnlyDrops ==
    ASSUME NEW x \in Nat
    PROVE  /\ CastU64(x) \in Nat /\ CastU64(x) <= x /\ CastU64(x) < CastModulus
           /\ x < CastModulus => CastU64(x) = x
<1>1. CastModulus \in Nat \ {0}
  BY OracleMathAssumption
<1>2. \A m \in Nat \ {0} : x % m \in Nat /\ x % m <= x /\ x % m < m /\ (x < m => x % m = x)
  BY Z3
<1> QED
  BY <1>1, <1>2 DEF CastU64

\* Where the scale goes makes no difference: the quotient is that of the two numbers with
\* any exponents of this difference.
LEMMA ScaledExact ==
    ASSUME NEW n \in Nat, NEW d \in Nat \ {0}, NEW a \in Nat, NEW b \in Nat
    PROVE  /\ Scaled(n, d, a - b) = (n * Pow10[a]) \div (d * Pow10[b])
           /\ Scaled(n, d, a - b) \in Nat
<1> HIDE DEF Pow10
<1>0. Pow10[a] \in Nat \ {0} /\ Pow10[b] \in Nat \ {0}
  BY Pow10Positive
<1>1. CASE a - b >= 0
  <2> DEFINE e == a - b
             k == Pow10[e]
  <2>1. e \in Nat /\ e >= 0 /\ e + b = a
    BY <1>1
  <2>2. k \in Nat \ {0} /\ Pow10[a] = k * Pow10[b]
    BY <2>1, Pow10Positive, Pow10Adds
  <2>3. Scaled(n, d, e) = (n * k) \div d
    BY <2>1 DEF Scaled
  <2> HIDE DEF e, k
  <2>4. n * k \in Nat /\ (n * k) * Pow10[b] = n * (k * Pow10[b])
    BY <1>0, <2>2
  <2>5. ((n * k) * Pow10[b]) \div (d * Pow10[b]) = (n * k) \div d
    BY <1>0, <2>4, FractionCancels
  <2>6. (n * k) \div d \in Nat
    BY <2>4, DivisionRoundsDown
  <2> QED
    BY <2>2, <2>3, <2>4, <2>5, <2>6 DEF e
<1>2. CASE ~(a - b >= 0)
  <2> DEFINE e == -(a - b)
             k == Pow10[e]
  <2>1. e \in Nat /\ e + a = b
    BY <1>2
  <2>2. k \in Nat \ {0} /\ Pow10[b] = k * Pow10[a]
    BY <2>1, Pow10Positive, Pow10Adds
  <2>3. Scaled(n, d, a - b) = n \div (d * k)
    BY <1>2 DEF Scaled
  <2> HIDE DEF e, k
  <2>4. d * k \in Nat \ {0} /\ (d * k) * Pow10[a] = d * (k * Pow10[a])
    BY <1>0, <2>2
  <2>5. (n * Pow10[a]) \div ((d * k) * Pow10[a]) = n \div (d * k)
    BY <1>0, <2>4, FractionCancels
  <2>6. n \div (d * k) \in Nat
    BY <2>4, DivisionRoundsDown
  <2> QED
    BY <2>2, <2>3, <2>4, <2>5, <2>6
<1> QED
  BY <1>1, <1>2

-----------------------------------------------------------------------------
(* What the feeds show.                                                    *)

\* What a price account shows.
Quote == [price : Nat, conf : Nat, expo : Expos, time : Nat]

OracleInv == now \in Nat /\ feed \in [{"token", "sol"} -> Quote]

\* The invariant holds for every run of the feeds.
LEMMA OracleInvariant == OracleSpec => []OracleInv
<1>0. MaxExpo \in Nat /\ MaxTime \in Nat /\ Prices \subseteq Nat /\ Confidences \subseteq Nat
  BY OracleMathAssumption
<1>1. OracleInit => OracleInv
  <2> DEFINE none == [price |-> 0, conf |-> 0, expo |-> 0, time |-> 0]
  <2>1. none \in Quote
    BY <1>0 DEF Quote, Expos
  <2> QED
    BY <2>1 DEF OracleInit, OracleInv
<1>2. OracleInv /\ [OracleNext]_oracleVars => OracleInv'
  <2> SUFFICES ASSUME OracleInv, [OracleNext]_oracleVars PROVE OracleInv'
    OBVIOUS
  <2>1. ASSUME NEW f \in {"token", "sol"}, NEW p \in Prices, NEW conf \in Confidences,
               NEW expo \in Expos, NEW time \in 0 .. MaxTime, Publish(f, p, conf, expo, time)
        PROVE  OracleInv'
    <3> DEFINE q == [price |-> p, conf |-> conf, expo |-> expo, time |-> time]
    <3>1. feed' = [feed EXCEPT ![f] = q] /\ now' = now
      BY <2>1 DEF Publish
    <3>2. q \in Quote
      BY <1>0 DEF Quote
    <3> HIDE DEF q
    <3> QED
      BY <3>1, <3>2 DEF OracleInv
  <2>2. CASE Tick
    BY <2>2 DEF Tick, OracleInv
  <2>3. CASE UNCHANGED oracleVars
    BY <2>3 DEF oracleVars, OracleInv
  <2> QED
    BY <2>1, <2>2, <2>3 DEF OracleNext
<1> QED
  BY <1>1, <1>2, PTL DEF OracleSpec

\* Two prices of one valuation were published within twice the tolerated age: each is
\* within the age of the clock, in either direction.
THEOREM PricesContemporaryHolds == OracleSpec => []PricesContemporary
<1>1. OracleInv => PricesContemporary
  <2> SUFFICES ASSUME OracleInv, BothReadable
               PROVE  /\ feed["token"].time - feed["sol"].time <= 2 * MaxAge
                      /\ -(feed["token"].time - feed["sol"].time) <= 2 * MaxAge
    BY DEF PricesContemporary
  <2> DEFINE a == feed["token"].time
             b == feed["sol"].time
  <2>1. a \in Nat /\ b \in Nat /\ now \in Nat /\ MaxAge \in Nat
    BY OracleMathAssumption DEF OracleInv, Quote
  <2>2. now - a <= MaxAge /\ a - now <= MaxAge /\ now - b <= MaxAge /\ b - now <= MaxAge
    BY DEF BothReadable, Readable, Recent
  <2> HIDE DEF a, b
  <2>3. a - b <= 2 * MaxAge /\ -(a - b) <= 2 * MaxAge
    BY <2>1, <2>2
  <2> QED
    BY <2>3 DEF a, b
<1> QED
  BY <1>1, OracleInvariant, PTL

-----------------------------------------------------------------------------
(* What the arithmetic makes of them.                                      *)

\* A price that was accepted is positive, and its exponent in the range of the feeds.
LEMMA ReadableQuote ==
    ASSUME OracleInv, NEW f \in {"token", "sol"}, Readable(feed[f])
    PROVE  /\ feed[f].price \in Nat \ {0} /\ feed[f].conf \in Nat
           /\ feed[f].conf <= FeeOf(feed[f].price, MaxConfBps)
           /\ feed[f].expo \in Int /\ MaxExpo + feed[f].expo \in Nat
<1>1. feed[f] \in Quote /\ MaxExpo \in Nat
  BY OracleMathAssumption DEF OracleInv
<1>2. feed[f].price \in Nat /\ feed[f].conf \in Nat /\ feed[f].expo \in -MaxExpo .. 0
  BY <1>1 DEF Quote, Expos
<1>3. feed[f].price > 0 /\ feed[f].conf <= FeeOf(feed[f].price, MaxConfBps)
  BY DEF Readable, Confident
<1> QED
  BY <1>1, <1>2, <1>3

\* The fractions that stand for exact values.
LEMMA ExactNat ==
    ASSUME OracleInv, BothReadable, NEW amount \in Nat, NEW decimals \in Nat,
           NEW p \in Nat, NEW s \in Nat \ {0}
    PROVE  /\ ExactNumerator(amount, p) \in Nat
           /\ ExactNumerator(amount, p)
                = (amount * p * LamportsPerSol) * Pow10[MaxExpo + feed["token"].expo]
           /\ ExactDenominator(decimals, s) \in Nat \ {0}
           /\ ExactDenominator(decimals, s) = s * Pow10[MaxExpo + feed["sol"].expo + decimals]
           /\ amount * p * LamportsPerSol \in Nat
<1> HIDE DEF Pow10
<1>1. /\ MaxExpo + feed["token"].expo \in Nat
      /\ MaxExpo + feed["sol"].expo \in Nat /\ MaxExpo + feed["sol"].expo + decimals \in Nat
  BY ReadableQuote DEF BothReadable
<1> DEFINE a == Pow10[MaxExpo + feed["token"].expo]
           b == Pow10[MaxExpo + feed["sol"].expo + decimals]
<1>2. a \in Nat \ {0} /\ b \in Nat \ {0} /\ LamportsPerSol \in Nat \ {0}
  BY <1>1, Pow10Positive, OracleMathAssumption
<1>3. ExactNumerator(amount, p) = amount * p * LamportsPerSol * a
      /\ ExactDenominator(decimals, s) = s * b
  BY DEF ExactNumerator, ExactDenominator
<1> HIDE DEF a, b
<1>4. amount * p * LamportsPerSol \in Nat
  BY <1>2
<1>5. (amount * p * LamportsPerSol) * a \in Nat /\ s * b \in Nat \ {0}
  BY <1>2, <1>4
<1> QED
  BY <1>3, <1>4, <1>5 DEF a, b

\* token_value_in_lamports casts the exact value rounded down.
LEMMA ValueIsCast ==
    ASSUME OracleInv, BothReadable, NEW amount \in Nat, NEW decimals \in Nat
    PROVE  LET exact == ExactNumerator(amount, feed["token"].price)
                          \div ExactDenominator(decimals, feed["sol"].price)
           IN  /\ TokenValueInLamports(amount, decimals, feed["token"], feed["sol"])
                    = CastU64(exact)
               /\ exact \in Nat
<1> HIDE DEF Pow10
<1> DEFINE tp == feed["token"].price
           sp == feed["sol"].price
           te == feed["token"].expo
           se == feed["sol"].expo
           num == ExactNumerator(amount, tp)
           den == ExactDenominator(decimals, sp)
           n == amount * tp * LamportsPerSol
           a == MaxExpo + te
           b == MaxExpo + se + decimals
<1>1. /\ tp \in Nat \ {0} /\ sp \in Nat \ {0} /\ te \in Int /\ se \in Int /\ MaxExpo \in Nat
      /\ a \in Nat /\ b \in Nat
  BY ReadableQuote, OracleMathAssumption DEF BothReadable
<1>2. n \in Nat /\ num = n * Pow10[a] /\ den = sp * Pow10[b] /\ num \in Nat /\ den \in Nat \ {0}
  <2>1. tp \in Nat /\ sp \in Nat \ {0}
    BY <1>1
  <2> HIDE DEF tp, sp
  <2>2. num \in Nat /\ num = n * Pow10[a] /\ n \in Nat
    BY <2>1, ExactNat
  <2>3. den \in Nat \ {0} /\ den = sp * Pow10[b]
    BY <2>1, ExactNat
  <2> QED
    BY <2>2, <2>3
<1>3. te - decimals - se = a - b
  BY <1>1
<1>4. TokenValueInLamports(amount, decimals, feed["token"], feed["sol"])
        = CastU64(Scaled(n, sp, a - b))
  BY <1>3 DEF TokenValueInLamports
<1> HIDE DEF n, num, den, a, b, sp
<1>5. Scaled(n, sp, a - b) = num \div den /\ num \div den \in Nat
  <2>1. /\ Scaled(n, sp, a - b) = (n * Pow10[a]) \div (sp * Pow10[b])
        /\ Scaled(n, sp, a - b) \in Nat
    BY <1>1, <1>2, ScaledExact
  <2> QED
    BY <1>2, <2>1
<1> QED
  BY <1>4, <1>5 DEF num, den, sp

\* expected_token_out_from_sol casts the reverse.
LEMMA TokensAreCast ==
    ASSUME OracleInv, BothReadable, NEW lamports \in Nat, NEW decimals \in Nat
    PROVE  LET exact == (lamports * ExactDenominator(decimals, feed["sol"].price))
                          \div ExactNumerator(1, feed["token"].price)
           IN  /\ ExpectedTokenOut(lamports, decimals, feed["token"], feed["sol"])
                    = CastU64(exact)
               /\ exact \in Nat
               /\ ExactNumerator(1, feed["token"].price) \in Nat \ {0}
<1> HIDE DEF Pow10
<1> DEFINE tp == feed["token"].price
           sp == feed["sol"].price
           te == feed["token"].expo
           se == feed["sol"].expo
           one == ExactNumerator(1, tp)
           den == ExactDenominator(decimals, sp)
           n == lamports * sp * Pow10[decimals]
           d == tp * LamportsPerSol
           a == MaxExpo + se
           b == MaxExpo + te
<1>1. /\ tp \in Nat \ {0} /\ sp \in Nat \ {0} /\ te \in Int /\ se \in Int /\ MaxExpo \in Nat
      /\ a \in Nat /\ b \in Nat /\ LamportsPerSol \in Nat \ {0}
  BY ReadableQuote, OracleMathAssumption DEF BothReadable
<1>2. /\ one = (1 * tp * LamportsPerSol) * Pow10[b] /\ one \in Nat
      /\ den = sp * Pow10[a + decimals] /\ den \in Nat \ {0}
  <2>1. tp \in Nat /\ sp \in Nat \ {0}
    BY <1>1
  <2> HIDE DEF tp, sp
  <2>2. one \in Nat /\ one = (1 * tp * LamportsPerSol) * Pow10[b]
    BY <2>1, ExactNat
  <2>3. den \in Nat \ {0} /\ den = sp * Pow10[a + decimals]
    BY <2>1, ExactNat
  <2> QED
    BY <2>2, <2>3
<1>3. Pow10[a] \in Nat \ {0} /\ Pow10[b] \in Nat \ {0} /\ Pow10[decimals] \in Nat \ {0}
      /\ Pow10[a + decimals] = Pow10[a] * Pow10[decimals]
  BY <1>1, Pow10Positive, Pow10Adds
<1>4. se - te = a - b
  BY <1>1
<1>5. ExpectedTokenOut(lamports, decimals, feed["token"], feed["sol"])
        = CastU64(Scaled(n, d, a - b))
  BY <1>4 DEF ExpectedTokenOut
<1> HIDE DEF sp, tp, a, b
<1>6. n \in Nat /\ d \in Nat \ {0}
  <2>1. lamports * sp \in Nat
    BY <1>1
  <2> QED
    BY <1>1, <1>3, <2>1
<1>7. n * Pow10[a] = lamports * den
  <2>1. \A l, s, x, y \in Nat : (l * s * x) * y = l * (s * (y * x))
    BY Z3
  <2>2. Pow10[decimals] \in Nat /\ Pow10[a] \in Nat /\ sp \in Nat
    BY <1>1, <1>3
  <2> DEFINE x == Pow10[decimals]
             y == Pow10[a]
  <2>3. (lamports * sp * x) * y = lamports * (sp * (y * x))
    BY <2>1, <2>2
  <2> QED
    BY <1>2, <1>3, <2>3
<1>8. d * Pow10[b] = one
  <2>1. 1 * tp * LamportsPerSol = d
    BY <1>1
  <2> QED
    BY <1>2, <2>1
<1>9. one # 0
  <2>1. \A x, y \in Nat \ {0} : x * y # 0
    BY Z3
  <2> HIDE DEF d, one
  <2> QED
    BY <1>3, <1>6, <1>8, <2>1
<1> HIDE DEF n, d, one, den
<1>10. Scaled(n, d, a - b) = (lamports * den) \div one /\ Scaled(n, d, a - b) \in Nat
  <2>1. /\ Scaled(n, d, a - b) = (n * Pow10[a]) \div (d * Pow10[b])
        /\ Scaled(n, d, a - b) \in Nat
    BY <1>1, <1>6, ScaledExact
  <2> QED
    BY <1>7, <1>8, <2>1
<1> QED
  BY <1>2, <1>5, <1>9, <1>10 DEF one, den, sp, tp

\* The value of a balance is the exact one rounded down as long as it fits the cast, and
\* less than it beyond.
THEOREM ValueExactHolds == OracleSpec => []ValueExact
<1>1. OracleInv => ValueExact
  <2> SUFFICES ASSUME OracleInv, BothReadable, NEW amount \in Amounts, NEW decimals \in Decimals
               PROVE  LET value == TokenValueInLamports(amount, decimals, feed["token"], feed["sol"])
                          exact == ExactNumerator(amount, feed["token"].price)
                                      \div ExactDenominator(decimals, feed["sol"].price)
                      IN  IF exact < CastModulus THEN value = exact ELSE value < exact
    BY DEF ValueExact
  <2> DEFINE value == TokenValueInLamports(amount, decimals, feed["token"], feed["sol"])
             exact == ExactNumerator(amount, feed["token"].price)
                        \div ExactDenominator(decimals, feed["sol"].price)
  <2>1. amount \in Nat /\ decimals \in Nat /\ CastModulus \in Nat
    BY OracleMathAssumption DEF Decimals
  <2>2. value = CastU64(exact) /\ exact \in Nat
    BY <2>1, ValueIsCast
  <2> HIDE DEF value, exact
  <2>3. /\ CastU64(exact) \in Nat /\ CastU64(exact) < CastModulus
        /\ exact < CastModulus => CastU64(exact) = exact
    BY <2>2, CastOnlyDrops
  <2>4. IF exact < CastModulus THEN value = exact ELSE value < exact
    BY <2>1, <2>2, <2>3
  <2> QED
    BY <2>4 DEF value, exact
<1> QED
  BY <1>1, OracleInvariant, PTL

\* A cast quotient, multiplied back, is at most the dividend.
LEMMA CastQuotientBelow ==
    ASSUME NEW n \in Nat, NEW d \in Nat \ {0}
    PROVE  CastU64(n \div d) \in Nat /\ CastU64(n \div d) * d <= n
<1> DEFINE q == n \div d
           c == CastU64(q)
<1>1. q \in Nat /\ q * d <= n
  BY DivisionRoundsDown
<1> HIDE DEF q
<1>2. c \in Nat /\ c <= q
  BY <1>1, CastOnlyDrops
<1> HIDE DEF c
<1>3. c * d <= q * d
  BY <1>1, <1>2
<1>4. c * d \in Nat /\ q * d \in Nat
  BY <1>1, <1>2
<1>5. c * d <= n
  BY <1>1, <1>3, <1>4
<1> QED
  BY <1>2, <1>5 DEF c, q

\* The value of an amount is the amount times the value of one unit.
LEMMA NumeratorScales ==
    ASSUME OracleInv, BothReadable, NEW amount \in Nat
    PROVE  /\ ExactNumerator(amount, feed["token"].price)
                = amount * ExactNumerator(1, feed["token"].price)
           /\ ExactNumerator(amount, feed["token"].price) \in Nat
<1> HIDE DEF Pow10
<1> DEFINE tp == feed["token"].price
           x == Pow10[MaxExpo + feed["token"].expo]
<1>1. tp \in Nat /\ MaxExpo + feed["token"].expo \in Nat /\ LamportsPerSol \in Nat
  BY ReadableQuote, OracleMathAssumption DEF BothReadable
<1>2. x \in Nat
  BY <1>1, Pow10Positive
<1>3. ExactNumerator(amount, tp) = amount * tp * LamportsPerSol * x
      /\ ExactNumerator(1, tp) = 1 * tp * LamportsPerSol * x
  BY DEF ExactNumerator
<1> HIDE DEF tp, x
<1>4. \A a, p, l, y \in Nat : a * p * l * y = a * (1 * p * l * y) /\ a * p * l * y \in Nat
  BY Z3
<1> QED
  BY <1>1, <1>2, <1>3, <1>4 DEF tp

\* Neither buying and selling at the oracle's prices, nor the reverse, ever gains.
THEOREM RoundTripsNeverGainHolds == OracleSpec => []RoundTripsNeverGain
<1>1. OracleInv => RoundTripsNeverGain
  <2> DEFINE token == feed["token"]
             sol == feed["sol"]
  <2> SUFFICES ASSUME OracleInv, BothReadable, NEW amount \in Amounts, NEW decimals \in Decimals
               PROVE  LET bought == ExpectedTokenOut(amount, decimals, token, sol)
                          sold == TokenValueInLamports(amount, decimals, token, sol)
                      IN  /\ TokenValueInLamports(bought, decimals, token, sol) <= amount
                          /\ ExpectedTokenOut(sold, decimals, token, sol) <= amount
    BY DEF RoundTripsNeverGain
  <2> DEFINE bought == ExpectedTokenOut(amount, decimals, token, sol)
             sold == TokenValueInLamports(amount, decimals, token, sol)
             one == ExactNumerator(1, token.price)
             den == ExactDenominator(decimals, sol.price)
  <2>1. amount \in Nat /\ decimals \in Nat
    BY OracleMathAssumption DEF Decimals
  <2>2. sol.price \in Nat \ {0} /\ token.price \in Nat
    BY ReadableQuote DEF BothReadable
  <2>3. one \in Nat \ {0} /\ den \in Nat \ {0}
    BY <2>1, <2>2, TokensAreCast, ExactNat
  <2>4. \A x \in Nat : /\ TokenValueInLamports(x, decimals, token, sol) = CastU64((x * one) \div den)
                       /\ ExpectedTokenOut(x, decimals, token, sol) = CastU64((x * den) \div one)
    <3> TAKE x \in Nat
    <3>1. ExactNumerator(x, token.price) = x * one
      BY NumeratorScales
    <3>2. TokenValueInLamports(x, decimals, token, sol)
            = CastU64(ExactNumerator(x, token.price) \div den)
      BY <2>1, ValueIsCast
    <3>3. ExpectedTokenOut(x, decimals, token, sol) = CastU64((x * den) \div one)
      BY <2>1, TokensAreCast
    <3> QED
      BY <3>1, <3>2, <3>3
  <2> HIDE DEF one, den
  <2>5. ASSUME NEW x \in Nat, NEW a \in Nat \ {0}, NEW b \in Nat \ {0}
        PROVE  /\ CastU64((x * a) \div b) \in Nat
               /\ CastU64((CastU64((x * a) \div b) * b) \div a) <= x
    <3> DEFINE y == CastU64((x * a) \div b)
               z == (y * b) \div a
    <3>1. x * a \in Nat
      BY <2>5
    <3>2. y \in Nat /\ y * b <= x * a
      BY <2>5, <3>1, CastQuotientBelow
    <3> HIDE DEF y
    <3>3. y * b \in Nat
      BY <2>5, <3>2
    <3>4. z <= x /\ z \in Nat
      BY <2>5, <3>2, <3>3, DivisionAtMost, DivisionRoundsDown
    <3> HIDE DEF z
    <3>5. CastU64(z) <= z /\ CastU64(z) \in Nat
      BY <3>4, CastOnlyDrops
    <3>6. CastU64(z) <= x
      BY <2>5, <3>4, <3>5
    <3> QED
      BY <3>2, <3>6 DEF y, z
  <2>6. bought \in Nat /\ sold \in Nat
    BY <2>1, <2>3, <2>4, <2>5
  <2>7. TokenValueInLamports(bought, decimals, token, sol) <= amount
    <3>1. bought = CastU64((amount * den) \div one)
      BY <2>1, <2>4
    <3>2. TokenValueInLamports(bought, decimals, token, sol) = CastU64((bought * one) \div den)
      BY <2>4, <2>6
    <3> QED
      BY <2>1, <2>3, <2>5, <3>1, <3>2
  <2>8. ExpectedTokenOut(sold, decimals, token, sol) <= amount
    <3>1. sold = CastU64((amount * one) \div den)
      BY <2>1, <2>4
    <3>2. ExpectedTokenOut(sold, decimals, token, sol) = CastU64((sold * den) \div one)
      BY <2>4, <2>6
    <3> QED
      BY <2>1, <2>3, <2>5, <3>1, <3>2
  <2> QED
    BY <2>7, <2>8
<1> QED
  BY <1>1, OracleInvariant, PTL

\* A positive factor changes no comparison.
LEMMA FactorKeepsOrder ==
    ASSUME NEW a \in Nat, NEW b \in Nat, NEW s \in Nat \ {0}
    PROVE  a <= b <=> a * s <= b * s
<1>1. ASSUME a <= b PROVE a * s <= b * s
  BY <1>1, Z3
<1>2. ASSUME a * s <= b * s PROVE a <= b
  <2>1. a * s < (b + 1) * s
    <3>1. a * s \in Nat /\ b * s \in Nat /\ (b + 1) * s = b * s + s
      OBVIOUS
    <3> QED
      BY <1>2, <3>1
  <2>2. a < b + 1
    BY <2>1, FactorCancels
  <2> QED
    BY <2>2
<1> QED
  BY <1>1, <1>2

\* What the confidence check says of one price: the interval is at most its share of it.
LEMMA IntervalInShare ==
    ASSUME NEW p \in Nat, NEW conf \in Nat, conf <= FeeOf(p, MaxConfBps)
    PROVE  /\ conf <= p
           /\ (p + conf) * BpsDenominator <= p * (BpsDenominator + MaxConfBps)
           /\ p * (BpsDenominator - MaxConfBps) <= (p - conf) * BpsDenominator
           /\ BpsDenominator - MaxConfBps \in Nat /\ BpsDenominator + MaxConfBps \in Nat
           /\ BpsDenominator \in Nat \ {0}
<1> DEFINE D == BpsDenominator
           c == MaxConfBps
           fee == FeeOf(p, c)
<1>1. c \in 0 .. D /\ D \in Nat \ {0}
  BY OracleMathAssumption DEF BpsDenominator
<1>2. c \in Nat /\ D - c \in Nat /\ D + c \in Nat
  BY <1>1
<1>3. fee \in Nat /\ fee <= p
  BY <1>1, FeeInAmount
<1>4. fee * D <= p * c
  <2>1. p * c \in Nat
    BY <1>2
  <2>2. ((p * c) \div D) * D <= p * c
    BY <1>1, <2>1, DivisionRoundsDown
  <2> QED
    BY <2>2 DEF FeeOf
<1>5. conf <= fee
  OBVIOUS
<1> HIDE DEF D, c, fee
<1>6. conf * D <= fee * D
  BY <1>1, <1>3, <1>5, FactorKeepsOrder
<1>7. conf * D <= p * c
  <2>1. conf * D \in Nat /\ fee * D \in Nat /\ p * c \in Nat
    BY <1>1, <1>2, <1>3
  <2> QED
    BY <1>4, <1>6, <2>1
<1>8. /\ (p + conf) * D = p * D + conf * D /\ p * (D + c) = p * D + p * c
      /\ p * (D - c) = p * D - p * c /\ (p - conf) * D = p * D - conf * D
  BY <1>1, <1>2, Z3
<1>9. p * D \in Nat /\ conf * D \in Nat /\ p * c \in Nat
  BY <1>1, <1>2
<1>10. (p + conf) * D <= p * (D + c) /\ p * (D - c) <= (p - conf) * D
  BY <1>7, <1>8, <1>9
<1>11. conf <= p
  BY <1>3, <1>5
<1> QED
  BY <1>1, <1>2, <1>10, <1>11 DEF D, c

\* Two prices off by their intervals change a bounded quotient by the two factors at most.
LEMMA ErrorsMultiply ==
    ASSUME NEW x \in Nat, NEW w \in Nat, NEW s \in Nat, NEW t \in Nat, x * s <= t * w,
           NEW s1 \in Nat, NEW t1 \in Nat, NEW D \in Nat \ {0}, NEW up \in Nat, NEW dn \in Nat,
           s1 * D <= s * up, t * dn <= t1 * D
    PROVE  (x * s1) * dn <= (t1 * w) * up
<1> DEFINE lhs == (x * s1) * dn
           rhs == (t1 * w) * up
           mid == (x * s) * (up * dn)
           mid1 == (t * w) * (up * dn)
<1>0. \A a, b, c \in Nat : a <= b => a * c <= b * c
  BY Z3
<1>1. lhs * D = (s1 * D) * (x * dn) /\ mid = (s * up) * (x * dn)
  BY Z3
<1>2. mid1 = (t * dn) * (w * up) /\ rhs * D = (t1 * D) * (w * up)
  BY Z3
<1>3. s1 * D \in Nat /\ s * up \in Nat /\ x * dn \in Nat /\ x * s \in Nat /\ t * w \in Nat
      /\ up * dn \in Nat /\ t * dn \in Nat /\ t1 * D \in Nat /\ w * up \in Nat
  OBVIOUS
<1>4. lhs * D <= mid
  BY <1>0, <1>1, <1>3
<1>5. mid <= mid1
  BY <1>0, <1>3
<1>6. mid1 <= rhs * D
  BY <1>0, <1>2, <1>3
<1>7. lhs \in Nat /\ rhs \in Nat /\ mid \in Nat /\ mid1 \in Nat /\ lhs * D \in Nat /\ rhs * D \in Nat
  <2>1. x * s1 \in Nat /\ t1 * w \in Nat
    OBVIOUS
  <2>2. lhs \in Nat /\ rhs \in Nat /\ mid \in Nat /\ mid1 \in Nat
    BY <1>3, <2>1
  <2> HIDE DEF lhs, rhs
  <2> QED
    BY <2>2
<1> HIDE DEF lhs, rhs, mid, mid1
<1>8. lhs * D <= rhs * D
  BY <1>4, <1>5, <1>6, <1>7
<1>9. lhs <= rhs
  BY <1>7, <1>8, FactorKeepsOrder
<1> QED
  BY <1>9 DEF lhs, rhs

\* With both feeds off by their whole interval, a value exceeds the real one by the factor
\* (1 + c) / (1 - c) at most.
THEOREM ConfidenceBoundsErrorHolds == OracleSpec => []ConfidenceBoundsError
<1>1. OracleInv => ConfidenceBoundsError
  <2> HIDE DEF Pow10
  <2> DEFINE token == feed["token"]
             sol == feed["sol"]
  <2> SUFFICES ASSUME OracleInv, BothReadable, NEW amount \in Amounts, NEW decimals \in Decimals
               PROVE  TokenValueInLamports(amount, decimals, token, sol)
                        * ExactDenominator(decimals, sol.price + sol.conf)
                        * (BpsDenominator - MaxConfBps)
                      <= ExactNumerator(amount, token.price - token.conf)
                           * (BpsDenominator + MaxConfBps)
    BY DEF ConfidenceBoundsError
  <2> DEFINE value == TokenValueInLamports(amount, decimals, token, sol)
             tp == token.price
             sp == sol.price
             t1 == tp - token.conf
             s1 == sp + sol.conf
             a == Pow10[MaxExpo + token.expo]
             b == Pow10[MaxExpo + sol.expo + decimals]
             x == value * b
             w == amount * LamportsPerSol * a
  <2>1. amount \in Nat /\ decimals \in Nat /\ LamportsPerSol \in Nat
    BY OracleMathAssumption DEF Decimals
  <2>2. /\ tp \in Nat \ {0} /\ sp \in Nat \ {0} /\ token.conf \in Nat /\ sol.conf \in Nat
        /\ token.conf <= FeeOf(tp, MaxConfBps) /\ sol.conf <= FeeOf(sp, MaxConfBps)
        /\ MaxExpo + token.expo \in Nat /\ MaxExpo + sol.expo \in Nat
    BY ReadableQuote DEF BothReadable
  <2>3. a \in Nat /\ b \in Nat
    BY <2>1, <2>2, Pow10Positive
  <2>4. /\ token.conf <= tp /\ s1 * BpsDenominator <= sp * (BpsDenominator + MaxConfBps)
        /\ tp * (BpsDenominator - MaxConfBps) <= t1 * BpsDenominator
        /\ BpsDenominator - MaxConfBps \in Nat /\ BpsDenominator + MaxConfBps \in Nat
        /\ BpsDenominator \in Nat \ {0}
    BY <2>2, IntervalInShare
  <2>5. t1 \in Nat /\ s1 \in Nat
    BY <2>2, <2>4
  <2>6. value \in Nat /\ value * ExactDenominator(decimals, sp) <= ExactNumerator(amount, tp)
    <3>1. value = CastU64(ExactNumerator(amount, tp) \div ExactDenominator(decimals, sp))
      BY <2>1, ValueIsCast
    <3>2. ExactNumerator(amount, tp) \in Nat /\ ExactDenominator(decimals, sp) \in Nat \ {0}
      BY <2>1, <2>2, ExactNat
    <3> QED
      BY <3>1, <3>2, CastQuotientBelow
  <2>7. /\ ExactDenominator(decimals, sp) = sp * b /\ ExactDenominator(decimals, s1) = s1 * b
        /\ ExactNumerator(amount, tp) = amount * tp * LamportsPerSol * a
        /\ ExactNumerator(amount, t1) = amount * t1 * LamportsPerSol * a
    BY DEF ExactDenominator, ExactNumerator
  <2> HIDE DEF value, a, b, tp, sp, t1, s1
  <2>8. \A v, s, y \in Nat : v * (s * y) = (v * y) * s
    BY Z3
  <2>9. \A n, p, l, y \in Nat : n * p * l * y = p * (n * l * y)
    BY Z3
  <2>10. /\ value * ExactDenominator(decimals, sp) = x * sp
         /\ value * ExactDenominator(decimals, s1) = x * s1
         /\ ExactNumerator(amount, tp) = tp * w
         /\ ExactNumerator(amount, t1) = t1 * w
    BY <2>1, <2>2, <2>3, <2>5, <2>6, <2>7, <2>8, <2>9
  <2>11. x \in Nat /\ w \in Nat
    BY <2>1, <2>3, <2>6
  <2> HIDE DEF x, w
  <2>12. x * sp <= tp * w
    BY <2>6, <2>10
  <2>13. (x * s1) * (BpsDenominator - MaxConfBps) <= (t1 * w) * (BpsDenominator + MaxConfBps)
    BY <2>2, <2>4, <2>5, <2>11, <2>12, ErrorsMultiply
  <2>14. value * ExactDenominator(decimals, s1) * (BpsDenominator - MaxConfBps)
           <= ExactNumerator(amount, t1) * (BpsDenominator + MaxConfBps)
    BY <2>10, <2>13
  <2> QED
    BY <2>14 DEF value, s1, t1, sp, tp
<1> QED
  BY <1>1, OracleInvariant, PTL

\* Rounding down keeps "at least", and adds less than one unit to "at most".
LEMMA QuotientCompares ==
    ASSUME NEW p \in Nat, NEW k \in Nat \ {0}, NEW l \in Nat
    PROVE  /\ p \div k \in Nat
           /\ p \div k >= l <=> p >= l * k
           /\ p <= l * k => p \div k <= l
           /\ p \div k <= l => p < (l + 1) * k
<1> DEFINE q == p \div k
<1>1. q \in Nat /\ q * k <= p /\ p < q * k + k
  BY DivisionRoundsDown
<1> HIDE DEF q
<1>2. q * k \in Nat /\ l * k \in Nat /\ (q + 1) * k = q * k + k /\ (l + 1) * k = l * k + k
  BY <1>1
<1>3. ASSUME q >= l PROVE p >= l * k
  <2>1. l * k <= q * k
    BY <1>1, <1>3, FactorKeepsOrder
  <2> QED
    BY <1>1, <1>2, <2>1
<1>4. ASSUME p >= l * k PROVE q >= l
  <2>1. l * k < (q + 1) * k
    BY <1>1, <1>2, <1>4
  <2>2. l < q + 1
    BY <1>1, <2>1, FactorCancels
  <2> QED
    BY <1>1, <2>2
<1>5. ASSUME p <= l * k PROVE q <= l
  <2>1. q * k <= l * k
    BY <1>1, <1>2, <1>5
  <2> QED
    BY <1>1, <2>1, FactorKeepsOrder
<1>6. ASSUME q <= l PROVE p < (l + 1) * k
  <2>1. q * k <= l * k
    BY <1>1, <1>6, FactorKeepsOrder
  <2> QED
    BY <1>1, <1>2, <2>1
<1> QED
  BY <1>1, <1>3, <1>4, <1>5, <1>6 DEF q

\* The scaled price compares with a limit as the exact one does, up to a unit of the limit.
LEMMA ScaledCompares ==
    ASSUME NEW price \in Nat, NEW e \in Int, NEW target \in Int, NEW l \in Nat,
           MaxExpo + e \in Nat, MaxExpo + target \in Nat
    PROVE  LET exact == price * Pow10[MaxExpo + e]
               unit == Pow10[MaxExpo + target]
               scaled == ScalePrice(price, e, target)
           IN  /\ scaled >= l <=> exact >= l * unit
               /\ exact <= l * unit => scaled <= l
               /\ scaled <= l => exact < l * unit + unit
<1> HIDE DEF Pow10
<1> DEFINE P == Pow10[MaxExpo + e]
           T == Pow10[MaxExpo + target]
           scaled == ScalePrice(price, e, target)
<1>0. P \in Nat \ {0} /\ T \in Nat \ {0} /\ MaxExpo \in Int
  BY Pow10Positive, OracleMathAssumption
<1>1. CASE e >= target
  <2> DEFINE k == Pow10[e - target]
  <2>1. e - target \in Nat /\ (e - target) + (MaxExpo + target) = MaxExpo + e
    BY <1>0, <1>1
  <2>2. k \in Nat \ {0} /\ P = k * T
    BY <2>1, Pow10Positive, Pow10Adds
  <2>3. scaled = price * k
    BY <1>1 DEF ScalePrice
  <2> HIDE DEF scaled, k, P, T
  <2>4. scaled \in Nat /\ price * P = scaled * T
    BY <1>0, <2>2, <2>3
  <2>5. (scaled <= l <=> scaled * T <= l * T) /\ (l <= scaled <=> l * T <= scaled * T)
    BY <1>0, <2>4, FactorKeepsOrder
  <2>6. scaled * T \in Nat /\ l * T \in Nat
    BY <1>0, <2>4
  <2>7. /\ scaled >= l <=> price * P >= l * T
        /\ price * P <= l * T => scaled <= l
        /\ scaled <= l => price * P < l * T + T
    BY <1>0, <2>4, <2>5, <2>6
  <2> QED
    BY <2>7 DEF scaled, P, T
<1>2. CASE ~(e >= target)
  <2> DEFINE k == Pow10[target - e]
  <2>1. target - e \in Nat /\ (target - e) + (MaxExpo + e) = MaxExpo + target
    BY <1>0, <1>2
  <2>2. k \in Nat \ {0} /\ T = k * P
    BY <2>1, Pow10Positive, Pow10Adds
  <2>3. scaled = price \div k
    BY <1>2 DEF ScalePrice
  <2> HIDE DEF scaled, k
  <2>4. /\ scaled \in Nat
        /\ scaled >= l <=> price >= l * k
        /\ price <= l * k => scaled <= l
        /\ scaled <= l => price < (l + 1) * k
    <3>1. /\ price \div k \in Nat
          /\ price \div k >= l <=> price >= l * k
          /\ price <= l * k => price \div k <= l
          /\ price \div k <= l => price < (l + 1) * k
      BY <2>2, QuotientCompares
    <3> QED
      BY <2>3, <3>1
  <2> HIDE DEF P, T
  <2>5. l * k \in Nat /\ l * T = (l * k) * P /\ l * T + T = ((l + 1) * k) * P
    BY <1>0, <2>2
  <2>6. (price <= l * k <=> price * P <= (l * k) * P)
        /\ (l * k <= price <=> (l * k) * P <= price * P)
    BY <1>0, <2>5, FactorKeepsOrder
  <2>7. (l + 1) * k \in Nat /\ ((l + 1) * k <= price <=> ((l + 1) * k) * P <= price * P)
    <3>1. (l + 1) * k \in Nat
      BY <2>2
    <3> QED
      BY <1>0, <3>1, FactorKeepsOrder
  <2>8. price * P \in Nat /\ (l * k) * P \in Nat /\ ((l + 1) * k) * P \in Nat
    BY <1>0, <2>5, <2>7
  <2>9. scaled >= l <=> price * P >= l * T
    BY <2>4, <2>5, <2>6, <2>8
  <2>10. price * P <= l * T => scaled <= l
    BY <2>4, <2>5, <2>6
  <2>11. scaled <= l => price * P < l * T + T
    BY <2>4, <2>5, <2>7, <2>8
  <2> QED
    BY <2>9, <2>10, <2>11 DEF scaled, P, T
<1> QED
  BY <1>1, <1>2

\* A SELL order is triggered exactly at its limit, a BUY order never missed at its limit and
\* never triggered a whole unit of its exponent above it.
THEOREM TriggerHonestHolds == OracleSpec => []TriggerHonest
<1>1. OracleInv => TriggerHonest
  <2> HIDE DEF Pow10
  <2> DEFINE p == feed["token"]
  <2> SUFFICES ASSUME OracleInv, Readable(p), NEW limitPrice \in LimitPrices, NEW expo \in Expos
               PROVE  LET price == p.price * Pow10[MaxExpo + p.expo]
                          limit == limitPrice * Pow10[MaxExpo + expo]
                          unit == Pow10[MaxExpo + expo]
                      IN  /\ Triggered("SELL", limitPrice, expo, p) <=> price >= limit
                          /\ price <= limit => Triggered("BUY", limitPrice, expo, p)
                          /\ Triggered("BUY", limitPrice, expo, p) => price < limit + unit
    BY DEF TriggerHonest
  <2> DEFINE scaled == ScalePrice(p.price, p.expo, expo)
             price == p.price * Pow10[MaxExpo + p.expo]
             unit == Pow10[MaxExpo + expo]
             limit == limitPrice * unit
  <2>1. /\ p.price \in Nat /\ p.expo \in Int /\ MaxExpo + p.expo \in Nat
        /\ limitPrice \in Nat /\ expo \in Int /\ MaxExpo + expo \in Nat
    BY ReadableQuote, OracleMathAssumption DEF Expos
  <2>2. /\ scaled >= limitPrice <=> price >= limit
        /\ price <= limit => scaled <= limitPrice
        /\ scaled <= limitPrice => price < limit + unit
    BY <2>1, ScaledCompares
  <2>3. /\ Triggered("SELL", limitPrice, expo, p) <=> scaled >= limitPrice
        /\ Triggered("BUY", limitPrice, expo, p) <=> scaled <= limitPrice
    BY DEF Triggered
  <2> HIDE DEF scaled, price, limit, unit
  <2>4. /\ Triggered("SELL", limitPrice, expo, p) <=> price >= limit
        /\ price <= limit => Triggered("BUY", limitPrice, expo, p)
        /\ Triggered("BUY", limitPrice, expo, p) => price < limit + unit
    BY <2>2, <2>3
  <2> QED
    BY <2>4 DEF price, limit, unit
<1> QED
  BY <1>1, OracleInvariant, PTL
=============================================================================
