--------------------------- MODULE FundMathProofs ---------------------------
(***************************************************************************)
(* Lemmas that the proofs about several components need: the integer       *)
(* arithmetic of FundMath, induction, and sums over finite sets.           *)
(***************************************************************************)
EXTENDS FundMath, FiniteSetsExt, FiniteSetTheorems, WellFoundedInduction, TLAPS

-----------------------------------------------------------------------------
(* Divisions and fees.                                                     *)

\* Division rounds down.
LEMMA DivisionRoundsDown ==
    ASSUME NEW a \in Nat, NEW b \in Nat \ {0}
    PROVE  /\ a \div b \in Nat
           /\ (a \div b) * b <= a
           /\ a < (a \div b) * b + b
  BY Z3

\* A fee never exceeds the amount it is taken from.
LEMMA FeeInAmount ==
    ASSUME NEW amount \in Nat, NEW bps \in 0 .. BpsDenominator
    PROVE  /\ FeeOf(amount, bps) \in Nat
           /\ FeeOf(amount, bps) <= amount
<1>1. bps \in Nat /\ bps <= BpsDenominator /\ BpsDenominator \in Nat \ {0}
  BY DEF BpsDenominator
<1>2. amount * bps \in Nat /\ amount * bps <= amount * BpsDenominator
  BY <1>1, SMT
<1>3. /\ FeeOf(amount, bps) \in Nat
      /\ FeeOf(amount, bps) * BpsDenominator <= amount * bps
  BY <1>1, <1>2, DivisionRoundsDown DEF FeeOf
<1>4. FeeOf(amount, bps) * BpsDenominator <= amount * BpsDenominator
  BY <1>1, <1>2, <1>3, SMT
<1> QED
  BY <1>3, <1>4 DEF BpsDenominator

\* A factor can be cancelled.
LEMMA FactorCancels ==
    ASSUME NEW a \in Int, NEW b \in Int, NEW s \in Nat \ {0}, a * s < b * s
    PROVE  a < b
  BY Z3

\* Two amounts together are worth what they are worth apart, or one unit more.
LEMMA DivisionSplits ==
    ASSUME NEW x \in Nat, NEW y \in Nat, NEW s \in Nat \ {0}
    PROVE  /\ (x \div s) + (y \div s) <= (x + y) \div s
           /\ (x + y) \div s <= (x \div s) + (y \div s) + 1
<1> DEFINE a == x \div s
           b == y \div s
           c == (x + y) \div s
<1>1. a \in Nat /\ a * s <= x /\ x < a * s + s
  BY DivisionRoundsDown
<1>2. b \in Nat /\ b * s <= y /\ y < b * s + s
  BY DivisionRoundsDown
<1>3. c \in Nat /\ c * s <= x + y /\ x + y < c * s + s
  BY DivisionRoundsDown
<1> HIDE DEF a, b, c
<1>4. (a + b) * s < (c + 1) * s
  <2>1. (a + b) * s = a * s + b * s /\ (c + 1) * s = c * s + s
    BY <1>1, <1>2, <1>3
  <2>2. a * s \in Nat /\ b * s \in Nat /\ c * s \in Nat
    BY <1>1, <1>2, <1>3
  <2> QED
    BY <1>1, <1>2, <1>3, <2>1, <2>2
<1>5. c * s < (a + b + 2) * s
  <2>1. (a + b + 2) * s = a * s + b * s + 2 * s
    BY <1>1, <1>2, Z3
  <2>2. a * s \in Nat /\ b * s \in Nat /\ c * s \in Nat
    BY <1>1, <1>2, <1>3
  <2> QED
    BY <1>1, <1>2, <1>3, <2>1, <2>2
<1>6. a + b < c + 1 /\ c < a + b + 2
  BY <1>1, <1>2, <1>3, <1>4, <1>5, FactorCancels
<1> QED
  BY <1>1, <1>2, <1>3, <1>6 DEF a, b, c

\* What an oracle expectation less the tolerated slippage leaves is the fee of the
\* slippage less, and at most one unit of rounding.
LEMMA SlippageIsFee ==
    ASSUME NEW e \in Nat, NEW b \in 0 .. BpsDenominator
    PROVE  /\ ApplyMaxSlippage(e, b) \in Nat
           /\ ApplyMaxSlippage(e, b) + FeeOf(e, b) + 1 >= e
<1> DEFINE D == BpsDenominator
           q == ApplyMaxSlippage(e, b)
           f == FeeOf(e, b)
<1>1. b \in Nat /\ D - b \in Nat /\ D \in Nat \ {0}
  BY DEF BpsDenominator
<1>2. e * (D - b) \in Nat /\ e * b \in Nat
  BY <1>1
<1>3. q \in Nat /\ e * (D - b) < q * D + D
  BY <1>1, <1>2, DivisionRoundsDown DEF ApplyMaxSlippage
<1>4. f \in Nat /\ e * b < f * D + D
  BY <1>1, <1>2, DivisionRoundsDown DEF FeeOf
<1>5. e * (D - b) + e * b = e * D
  BY <1>1 DEF BpsDenominator
<1> HIDE DEF D, q, f
<1>6. e * D < (q + f + 2) * D
  <2>1. (q + f + 2) * D = q * D + f * D + 2 * D
    BY <1>1, <1>3, <1>4, Z3
  <2>2. q * D \in Nat /\ f * D \in Nat
    BY <1>1, <1>3, <1>4
  <2> QED
    BY <1>1, <1>2, <1>3, <1>4, <1>5, <2>1, <2>2
<1>7. e < q + f + 2
  BY <1>1, <1>3, <1>4, <1>6, FactorCancels
<1> QED
  BY <1>3, <1>4, <1>7 DEF q, f

\* Tokens bought for a lamports at the oracle's price p / s, less the slippage, are worth
\* the lamports again, less the slippage and the roundings of all steps.
LEMMA BoughtWorth ==
    ASSUME NEW a \in Nat, NEW p \in Nat \ {0}, NEW s \in Nat \ {0},
           NEW b \in 0 .. BpsDenominator, NEW out \in Nat,
           out >= ApplyMaxSlippage((a * s) \div p, b)
    PROVE  (out * p) \div s + FeeOf(a, b) + 3 + (2 * p) \div s >= a
<1> DEFINE D == BpsDenominator
           c == D - b
           e == (a * s) \div p
           m == ApplyMaxSlippage(e, b)
           q == (out * p) \div s
           f == FeeOf(a, b)
           r == (2 * p) \div s
<1>1. b \in Nat /\ c \in Nat /\ D \in Nat \ {0} /\ c <= D /\ b = D - c
  BY DEF BpsDenominator
<1>2. a * s \in Nat /\ out * p \in Nat /\ 2 * p \in Nat /\ a * b \in Nat
  BY <1>1
<1>3. e \in Nat /\ a * s < e * p + p
  BY <1>2, DivisionRoundsDown
<1>4. m \in Nat /\ e * c < m * D + D /\ m <= out
  <2> HIDE DEF e
  <2>1. e * c \in Nat
    BY <1>1, <1>3
  <2> QED
    BY <1>1, <2>1, DivisionRoundsDown DEF ApplyMaxSlippage, e
<1>5. q \in Nat /\ out * p < q * s + s
  BY <1>2, DivisionRoundsDown
<1>6. f \in Nat /\ a * b < f * D + D
  BY <1>1, <1>2, DivisionRoundsDown DEF FeeOf
<1>7. r \in Nat /\ 2 * p < r * s + s
  BY <1>2, DivisionRoundsDown
<1> HIDE DEF D, c, e, m, q, f, r
\* Everything in units of 1 / (s * D).
<1>8. a * s * c <= e * p * c + p * c
  BY <1>1, <1>3, Z3
<1>9. e * p * c <= m * p * D + p * D
  <2>1. e * c * p <= (m * D + D) * p
    BY <1>1, <1>3, <1>4, Z3
  <2> QED
    BY <1>1, <1>3, <1>4, <2>1, Z3
<1>10. m * p * D <= out * p * D
  BY <1>1, <1>4, Z3
<1>11. out * p * D < q * s * D + s * D
  BY <1>1, <1>2, <1>5, Z3
<1>12. a * b * s < f * D * s + D * s
  BY <1>1, <1>2, <1>6, Z3
<1>13. 2 * p * D < r * s * D + s * D
  BY <1>1, <1>2, <1>7, Z3
<1>14. p * c <= p * D
  BY <1>1, Z3
<1>15. a * s * c + a * b * s = a * s * D
  BY <1>1, Z3
<1>16. a * s * D < q * s * D + f * D * s + r * s * D + 3 * (s * D)
  <2> DEFINE u == s * D
  <2>1. /\ u \in Nat /\ a * s * c \in Nat /\ a * b * s \in Nat /\ e * p * c \in Nat /\ p * c \in Nat
        /\ m * p * D \in Nat /\ p * D \in Nat /\ out * p * D \in Nat /\ q * s * D \in Nat
        /\ f * D * s \in Nat /\ r * s * D \in Nat
    BY <1>1, <1>2, <1>3, <1>4, <1>5, <1>6, <1>7
  <2>2. 2 * p * D = p * D + p * D /\ D * s = s * D
    BY <1>1, Z3
  <2> QED
    BY <1>8, <1>9, <1>10, <1>11, <1>12, <1>13, <1>14, <1>15, <2>1, <2>2
<1>17. a * (s * D) < (q + f + r + 3) * (s * D)
  <2>1. a * s * D = a * (s * D)
    BY <1>1, Z3
  <2>2. (q + f + r + 3) * (s * D) = q * s * D + f * D * s + r * s * D + 3 * (s * D)
    BY <1>1, <1>5, <1>6, <1>7, Z3
  <2> QED
    BY <1>16, <2>1, <2>2
<1>18. s * D \in Nat \ {0}
  BY <1>1, Z3
<1>19. a < q + f + r + 3
  BY <1>5, <1>6, <1>7, <1>17, <1>18, FactorCancels
<1> QED
  BY <1>5, <1>6, <1>7, <1>19 DEF q, f, r
-----------------------------------------------------------------------------
(* Induction and sums.                                                     *)

\* A set of natural numbers that contains 0 and with each number the next one is
\* all of Nat.  (The induction of the library takes a predicate; this one takes a set.)
LEMMA NatSetInduction ==
    ASSUME NEW S \in SUBSET Nat, 0 \in S, \A n \in S : n + 1 \in S
    PROVE  S = Nat
<1> SUFFICES ASSUME S # Nat PROVE FALSE
  OBVIOUS
<1> DEFINE T == Nat \ S
<1>1. T # {} /\ T \subseteq Nat
  OBVIOUS
<1>2. PICK x \in T : \A y \in T : ~ (<<y, x>> \in OpToRel(<, Nat))
  BY <1>1, NatLessThanWellFounded, WFMin
<1>3. x # 0 /\ x - 1 \in Nat /\ x - 1 \notin S
  BY <1>1
<1>4. <<x - 1, x>> \in OpToRel(<, Nat)
  BY <1>3 DEF OpToRel
<1> QED
  BY <1>2, <1>3, <1>4

\* The order in which the library's sums take the elements of a set.
FirstOf(s) == CHOOSE x \in s : TRUE
OthersOf(s) == s \ {FirstOf(s)}

\* it[s] is the sum of f over s, for all sets s of D.
Sums(it, f, D) == it = [s \in D |-> IF s = {} THEN 0 ELSE f[FirstOf(s)] + it[OthersOf(s)]]

\* A set that is not empty contains the element taken first.
LEMMA FirstInSet == ASSUME NEW s, s # {} PROVE FirstOf(s) \in s
  BY DEF FirstOf

\* What is left after the first element is a smaller set.
LEMMA OthersFewer ==
    ASSUME NEW s, s # {}, IsFiniteSet(s)
    PROVE  IsFiniteSet(OthersOf(s)) /\ Cardinality(OthersOf(s)) = Cardinality(s) - 1
           /\ Cardinality(s) \in Nat \ {0} /\ OthersOf(s) \subseteq s
  BY FirstInSet, FS_RemoveElement, FS_CardinalityType, FS_EmptySet DEF OthersOf

\* The recursive equation of the sums at one set.
LEMMA SumsPoint ==
    ASSUME NEW it, NEW f, NEW D, Sums(it, f, D), NEW s \in D
    PROVE  it[s] = IF s = {} THEN 0 ELSE f[FirstOf(s)] + it[OthersOf(s)]
<1> DEFINE g == [t \in D |-> IF t = {} THEN 0 ELSE f[FirstOf(t)] + it[OthersOf(t)]]
<1>1. it = g
  BY DEF Sums
<1>2. g[s] = IF s = {} THEN 0 ELSE f[FirstOf(s)] + it[OthersOf(s)]
  OBVIOUS
<1> QED
  BY <1>1, <1>2, Zenon

\* The sums of a function over the subsets of a finite set exist: they are built up by
\* the size of the subsets.
LEMMA SumsExist ==
    ASSUME NEW f, NEW S, IsFiniteSet(S)
    PROVE  \E it : Sums(it, f, SUBSET S)
<1> DEFINE Small(n) == {s \in SUBSET S : Cardinality(s) <= n}
           N == {n \in Nat : \E it : Sums(it, f, Small(n))}
<1>0. \A s \in SUBSET S : IsFiniteSet(s) /\ Cardinality(s) \in Nat /\ Cardinality(s) <= Cardinality(S)
  BY FS_Subset, FS_CardinalityType
<1>1. 0 \in N
  <2> DEFINE it == [s \in Small(0) |-> 0]
  <2>1. \A s \in Small(0) : s = {}
    BY <1>0, FS_EmptySet
  <2>2. Sums(it, f, Small(0))
    BY <2>1 DEF Sums
  <2> HIDE DEF it
  <2> QED
    BY <2>2
<1>2. ASSUME NEW n \in N PROVE n + 1 \in N
  <2>1. PICK it : Sums(it, f, Small(n))
    OBVIOUS
  <2> DEFINE h == [s \in Small(n + 1) |-> IF s = {} THEN 0 ELSE f[FirstOf(s)] + it[OthersOf(s)]]
  <2>2. ASSUME NEW s \in Small(n + 1), s # {}
        PROVE  h[OthersOf(s)] = it[OthersOf(s)]
    <3>1. OthersOf(s) \in Small(n) /\ OthersOf(s) \in Small(n + 1)
      BY <1>0, <2>2, OthersFewer
    <3>2. h[OthersOf(s)] = IF OthersOf(s) = {} THEN 0 ELSE f[FirstOf(OthersOf(s))] + it[OthersOf(OthersOf(s))]
      BY <3>1
    <3>3. it[OthersOf(s)] = IF OthersOf(s) = {} THEN 0 ELSE f[FirstOf(OthersOf(s))] + it[OthersOf(OthersOf(s))]
      BY <3>1, <2>1, SumsPoint
    <3> QED
      BY <3>2, <3>3
  <2>3. h = [s \in Small(n + 1) |-> IF s = {} THEN 0 ELSE f[FirstOf(s)] + h[OthersOf(s)]]
    BY <2>2
  <2>4. Sums(h, f, Small(n + 1))
    BY <2>3, Zenon DEF Sums
  <2>5. \E g : Sums(g, f, Small(n + 1))
    BY <2>4, Zenon
  <2>6. n + 1 \in Nat
    OBVIOUS
  <2> HIDE DEF h
  <2> QED
    BY <2>5, <2>6
<1> HIDE DEF N
<1>3. N = Nat
  BY <1>1, <1>2, NatSetInduction DEF N
<1>4. Cardinality(S) \in N
  BY <1>3, FS_CardinalityType
<1>5. Small(Cardinality(S)) = SUBSET S
  BY <1>0
<1>6. \E it : Sums(it, f, Small(Cardinality(S)))
  BY <1>4 DEF N
<1> QED
  BY <1>5, <1>6

\* Whatever set the sums are taken up to, two functions with the same values on S have
\* the same sum over S.
LEMMA SumsUnique ==
    ASSUME NEW S, IsFiniteSet(S), NEW f, NEW g, \A x \in S : f[x] = g[x],
           NEW T, IsFiniteSet(T), S \subseteq T,
           NEW it, Sums(it, f, SUBSET S), NEW jt, Sums(jt, g, SUBSET T)
    PROVE  it[S] = jt[S]
<1> DEFINE N == {n \in Nat : \A s \in SUBSET S : Cardinality(s) = n => it[s] = jt[s]}
<1>0. \A s \in SUBSET S : IsFiniteSet(s) /\ Cardinality(s) \in Nat /\ s \in SUBSET T
  BY FS_Subset, FS_CardinalityType
<1>1. 0 \in N
  <2>1. ASSUME NEW s \in SUBSET S, Cardinality(s) = 0 PROVE it[s] = 0 /\ jt[s] = 0
    <3>1. s = {} /\ s \in SUBSET T
      BY <1>0, <2>1, FS_EmptySet
    <3>2. it[s] = 0
      BY <3>1, SumsPoint
    <3>3. jt[s] = 0
      BY <3>1, SumsPoint
    <3> QED
      BY <3>2, <3>3
  <2> QED
    BY <2>1
<1>2. ASSUME NEW n \in N PROVE n + 1 \in N
  <2>1. ASSUME NEW s \in SUBSET S, Cardinality(s) = n + 1 PROVE it[s] = jt[s]
    <3>1. s # {}
      BY <1>0, <2>1, FS_EmptySet
    <3>2. OthersOf(s) \in SUBSET S /\ Cardinality(OthersOf(s)) = n /\ FirstOf(s) \in S
      BY <1>0, <2>1, <3>1, OthersFewer, FirstInSet
    <3>3. it[OthersOf(s)] = jt[OthersOf(s)]
      BY <3>2
    <3>4. it[s] = f[FirstOf(s)] + it[OthersOf(s)]
      BY <3>1, SumsPoint
    <3>5. jt[s] = g[FirstOf(s)] + jt[OthersOf(s)]
      BY <1>0, <3>1, SumsPoint
    <3> QED
      BY <3>2, <3>3, <3>4, <3>5
  <2> QED
    BY <2>1
<1> HIDE DEF N
<1>3. N = Nat
  BY <1>1, <1>2, NatSetInduction DEF N
<1> QED
  BY <1>3, FS_CardinalityType DEF N

\* The library's sum is such a function of the subsets, taken at the whole set.
LEMMA SumIsIterated ==
    ASSUME NEW f, NEW S, IsFiniteSet(S)
    PROVE  \E it : Sums(it, f, SUBSET S) /\ SumFunctionOnSet(f, S) = it[S]
<1> DEFINE all == CHOOSE it : Sums(it, f, SUBSET S)
<1>1. Sums(all, f, SUBSET S)
  BY SumsExist
<1>2. SumFunctionOnSet(f, S) = all[S]
  BY DEF SumFunctionOnSet, FoldFunctionOnSet, MapThenFoldSet, Sums, FirstOf, OthersOf
<1> QED
  BY <1>1, <1>2

\* A sum depends on the values only.
LEMMA SumSame ==
    ASSUME NEW S, IsFiniteSet(S), NEW f, NEW g, \A x \in S : f[x] = g[x]
    PROVE  SumFunctionOnSet(f, S) = SumFunctionOnSet(g, S)
<1>1. PICK it : Sums(it, f, SUBSET S) /\ SumFunctionOnSet(f, S) = it[S]
  BY SumIsIterated
<1>2. PICK jt : Sums(jt, g, SUBSET S) /\ SumFunctionOnSet(g, S) = jt[S]
  BY SumIsIterated
<1>3. S \subseteq S /\ Sums(it, f, SUBSET S) /\ Sums(jt, g, SUBSET S)
  BY <1>1, <1>2
<1>4. it[S] = jt[S]
  BY <1>3, SumsUnique
<1> QED
  BY <1>1, <1>2, <1>4

\* Nothing adds up to zero.
LEMMA SumEmpty == ASSUME NEW f PROVE SumFunctionOnSet(f, {}) = 0
<1>1. PICK it : Sums(it, f, SUBSET {}) /\ SumFunctionOnSet(f, {}) = it[{}]
  BY SumIsIterated, FS_EmptySet
<1>2. {} \in SUBSET {}
  OBVIOUS
<1>3. it[{}] = 0
  BY <1>1, <1>2, SumsPoint
<1> QED
  BY <1>1, <1>3

\* A sum is its first element and the sum of the others.
LEMMA SumFirst ==
    ASSUME NEW S, IsFiniteSet(S), S # {}, NEW f
    PROVE  SumFunctionOnSet(f, S) = f[FirstOf(S)] + SumFunctionOnSet(f, OthersOf(S))
<1>1. PICK it : Sums(it, f, SUBSET S) /\ SumFunctionOnSet(f, S) = it[S]
  BY SumIsIterated
<1>2. IsFiniteSet(OthersOf(S)) /\ OthersOf(S) \subseteq S
  BY OthersFewer
<1>3. PICK jt : Sums(jt, f, SUBSET OthersOf(S)) /\ SumFunctionOnSet(f, OthersOf(S)) = jt[OthersOf(S)]
  BY <1>2, SumIsIterated
<1>4. jt[OthersOf(S)] = it[OthersOf(S)]
  <2> DEFINE R == OthersOf(S)
  <2>1. IsFiniteSet(R) /\ R \subseteq S /\ Sums(jt, f, SUBSET R) /\ Sums(it, f, SUBSET S)
    BY <1>1, <1>2, <1>3
  <2>2. \A x \in R : f[x] = f[x]
    OBVIOUS
  <2> HIDE DEF R
  <2>3. jt[R] = it[R]
    BY <2>1, <2>2, SumsUnique
  <2> QED
    BY <2>3 DEF R
<1> QED
  BY <1>1, <1>3, <1>4, SumsPoint

\* Natural numbers add up to a natural number.
LEMMA SumNat ==
    ASSUME NEW S, IsFiniteSet(S), NEW f, \A x \in S : f[x] \in Nat
    PROVE  SumFunctionOnSet(f, S) \in Nat
<1> DEFINE N == {n \in Nat : \A s \in SUBSET S : Cardinality(s) = n => SumFunctionOnSet(f, s) \in Nat}
<1>0. \A s \in SUBSET S : IsFiniteSet(s) /\ Cardinality(s) \in Nat
  BY FS_Subset, FS_CardinalityType
<1>1. 0 \in N
  BY <1>0, FS_EmptySet, SumEmpty
<1>2. ASSUME NEW n \in N PROVE n + 1 \in N
  <2>1. ASSUME NEW s \in SUBSET S, Cardinality(s) = n + 1 PROVE SumFunctionOnSet(f, s) \in Nat
    <3>1. s # {}
      BY <1>0, <2>1, FS_EmptySet
    <3>2. OthersOf(s) \in SUBSET S /\ Cardinality(OthersOf(s)) = n /\ FirstOf(s) \in S
      BY <1>0, <2>1, <3>1, OthersFewer, FirstInSet
    <3> QED
      BY <1>0, <3>1, <3>2, SumFirst
  <2> QED
    BY <2>1
<1> HIDE DEF N
<1>3. N = Nat
  BY <1>1, <1>2, NatSetInduction DEF N
<1> QED
  BY <1>3, FS_CardinalityType DEF N

\* The order of addition does not matter: any element can be taken off a sum.
LEMMA SumPoint ==
    ASSUME NEW S, IsFiniteSet(S), NEW f, \A x \in S : f[x] \in Nat, NEW e \in S
    PROVE  SumFunctionOnSet(f, S) = f[e] + SumFunctionOnSet(f, S \ {e})
<1> DEFINE N == {n \in Nat : \A s \in SUBSET S : Cardinality(s) = n
                     => \A y \in s : SumFunctionOnSet(f, s) = f[y] + SumFunctionOnSet(f, s \ {y})}
<1>0. \A s \in SUBSET S : IsFiniteSet(s) /\ Cardinality(s) \in Nat /\ SumFunctionOnSet(f, s) \in Nat
  BY FS_Subset, FS_CardinalityType, SumNat
<1>1. 0 \in N
  BY <1>0, FS_EmptySet
<1>2. ASSUME NEW n \in N PROVE n + 1 \in N
  <2>1. ASSUME NEW s \in SUBSET S, Cardinality(s) = n + 1, NEW y \in s
        PROVE  SumFunctionOnSet(f, s) = f[y] + SumFunctionOnSet(f, s \ {y})
    <3> DEFINE p == FirstOf(s)
    <3>1. s # {} /\ p \in s
      BY <2>1, FirstInSet
    <3>2. SumFunctionOnSet(f, s) = f[p] + SumFunctionOnSet(f, s \ {p})
      BY <1>0, <3>1, SumFirst DEF OthersOf
    <3>3. CASE p = y
      BY <3>2, <3>3
    <3>4. CASE p # y
      <4>0. n \in Nat /\ IsFiniteSet(s) /\ Cardinality(s) = n + 1
        BY <1>0, <2>1
      <4>1. Cardinality(s \ {p}) = n /\ Cardinality(s \ {y}) = n
        <5>1. Cardinality(s \ {p}) = Cardinality(s) - 1
          BY <3>1, <4>0, FS_RemoveElement
        <5>2. Cardinality(s \ {y}) = Cardinality(s) - 1
          BY <2>1, <4>0, FS_RemoveElement
        <5> QED
          BY <4>0, <5>1, <5>2
      <4>2. SumFunctionOnSet(f, s \ {p}) = f[y] + SumFunctionOnSet(f, (s \ {p}) \ {y})
        BY <3>1, <3>4, <4>1
      <4>3. SumFunctionOnSet(f, s \ {y}) = f[p] + SumFunctionOnSet(f, (s \ {y}) \ {p})
        BY <3>1, <3>4, <4>1
      <4>4. (s \ {p}) \ {y} = (s \ {y}) \ {p}
        OBVIOUS
      <4> DEFINE both == SumFunctionOnSet(f, (s \ {p}) \ {y})
      <4>5. both \in Nat /\ f[y] \in Nat /\ f[p] \in Nat
        BY <1>0, <3>1
      <4>6. SumFunctionOnSet(f, s) = f[p] + (f[y] + both) /\ SumFunctionOnSet(f, s \ {y}) = f[p] + both
        BY <3>2, <4>2, <4>3, <4>4
      <4> HIDE DEF p, both
      <4> QED
        BY <4>5, <4>6
    <3> QED
      BY <3>3, <3>4
  <2> QED
    BY <2>1
<1> HIDE DEF N
<1>3. N = Nat
  BY <1>1, <1>2, NatSetInduction DEF N
<1> QED
  BY <1>3, FS_CardinalityType DEF N

\* The sum of a function with natural values is natural.
LEMMA SumFunctionNat ==
    ASSUME NEW S, IsFiniteSet(S), NEW f \in [S -> Nat]
    PROVE  SumFunction(f) \in Nat
  BY SumNat DEF SumFunction

\* The sum of zeros is zero.
LEMMA SumZero ==
    ASSUME NEW S, IsFiniteSet(S), NEW f \in [S -> Nat], \A x \in S : f[x] = 0
    PROVE  SumFunction(f) = 0
<1> DEFINE N == {n \in Nat : \A s \in SUBSET S : Cardinality(s) = n => SumFunctionOnSet(f, s) = 0}
<1>0. \A s \in SUBSET S : IsFiniteSet(s) /\ Cardinality(s) \in Nat
  BY FS_Subset, FS_CardinalityType
<1>1. 0 \in N
  BY <1>0, FS_EmptySet, SumEmpty
<1>2. ASSUME NEW n \in N PROVE n + 1 \in N
  <2>1. ASSUME NEW s \in SUBSET S, Cardinality(s) = n + 1 PROVE SumFunctionOnSet(f, s) = 0
    <3>1. s # {}
      BY <1>0, <2>1, FS_EmptySet
    <3>2. OthersOf(s) \in SUBSET S /\ Cardinality(OthersOf(s)) = n /\ FirstOf(s) \in S
      BY <1>0, <2>1, <3>1, OthersFewer, FirstInSet
    <3> QED
      BY <1>0, <3>1, <3>2, SumFirst
  <2> QED
    BY <2>1
<1> HIDE DEF N
<1>3. N = Nat
  BY <1>1, <1>2, NatSetInduction DEF N
<1>4. SumFunctionOnSet(f, S) = 0
  BY <1>3, FS_CardinalityType DEF N
<1> QED
  BY <1>4 DEF SumFunction

\* A term is at most the sum.
LEMMA SumCoversTerm ==
    ASSUME NEW S, IsFiniteSet(S), NEW f \in [S -> Nat], NEW e \in S
    PROVE  f[e] <= SumFunction(f)
<1>1. SumFunctionOnSet(f, S) = f[e] + SumFunctionOnSet(f, S \ {e})
  BY SumPoint
<1>2. SumFunctionOnSet(f, S \ {e}) \in Nat
  BY SumNat, FS_RemoveElement
<1> QED
  BY <1>1, <1>2 DEF SumFunction

\* A sum changes by as much as the one term that changes.
LEMMA SumChanges ==
    ASSUME NEW S, IsFiniteSet(S), NEW e \in S, NEW f \in [S -> Nat], NEW g \in [S -> Nat],
           \A x \in S \ {e} : g[x] = f[x]
    PROVE  SumFunction(g) = SumFunction(f) + g[e] - f[e]
<1>1. SumFunctionOnSet(f, S) = f[e] + SumFunctionOnSet(f, S \ {e})
  BY SumPoint
<1>2. SumFunctionOnSet(g, S) = g[e] + SumFunctionOnSet(g, S \ {e})
  BY SumPoint
<1>3. IsFiniteSet(S \ {e})
  BY FS_RemoveElement
<1>4. SumFunctionOnSet(g, S \ {e}) = SumFunctionOnSet(f, S \ {e})
  BY <1>3, SumSame
<1>5. SumFunctionOnSet(f, S \ {e}) \in Nat
  BY <1>3, SumNat
<1>6. f[e] \in Nat /\ g[e] \in Nat
  OBVIOUS
<1> QED
  BY <1>1, <1>2, <1>4, <1>5, <1>6 DEF SumFunction

\* A sum grows by the term that is added.
LEMMA SumGrows ==
    ASSUME NEW S, IsFiniteSet(S), NEW e, e \notin S, NEW f \in [S -> Nat],
           NEW T, T = S \cup {e}, NEW g \in [T -> Nat], \A x \in S : g[x] = f[x]
    PROVE  SumFunction(g) = SumFunction(f) + g[e]
<1>1. IsFiniteSet(T) /\ e \in T /\ T \ {e} = S
  BY FS_AddElement
<1>2. SumFunctionOnSet(g, T) = g[e] + SumFunctionOnSet(g, S)
  BY <1>1, SumPoint
<1>3. SumFunctionOnSet(g, S) = SumFunctionOnSet(f, S)
  BY SumSame
<1>4. SumFunctionOnSet(f, S) \in Nat /\ g[e] \in Nat
  BY <1>1, SumNat
<1> QED
  BY <1>2, <1>3, <1>4 DEF SumFunction

\* A sum after one term was set to another value.
LEMMA SumExcept ==
    ASSUME NEW S, IsFiniteSet(S), NEW e \in S, NEW f \in [S -> Nat], NEW v \in Nat
    PROVE  /\ SumFunction([f EXCEPT ![e] = v]) = SumFunction(f) + v - f[e]
           /\ SumFunction(f) \in Nat
<1> DEFINE g == [f EXCEPT ![e] = v]
<1>1. g \in [S -> Nat] /\ g[e] = v /\ \A x \in S \ {e} : g[x] = f[x]
  OBVIOUS
<1> HIDE DEF g
<1>2. SumFunction(g) = SumFunction(f) + g[e] - f[e]
  BY <1>1, SumChanges
<1> QED
  BY <1>1, <1>2, SumFunctionNat DEF g

-----------------------------------------------------------------------------
(* The price of a share.                                                   *)

\* Minting `minted` shares for `net` lamports lowers nobody's share value when
\* minted * nav <= net * total.
LEMMA MintKeepsValue ==
    ASSUME NEW net \in Nat, NEW total \in Nat, NEW nav \in Nat, NEW minted \in Nat,
           minted * nav <= net * total
    PROVE  (nav + net) * total >= nav * (total + minted)
  BY Z3

\* Paying `gross` for `shares` lowers nobody's share value when
\* gross * total <= shares * nav.
LEMMA PayoutKeepsValue ==
    ASSUME NEW shares \in Nat, NEW total \in Nat, NEW nav \in Nat, NEW gross \in Nat,
           gross * total <= shares * nav
    PROVE  (nav - gross) * total >= nav * (total - shares)
  BY Z3
=============================================================================
