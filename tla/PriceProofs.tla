---------------------------- MODULE PriceProofs ----------------------------
(***************************************************************************)
(* Proofs about Pricing and Promotions, for every basket, coupon, quote    *)
(* and campaign: what a coupon takes from the lines of a basket and who    *)
(* pays for it, and what a campaign's rules leave of the lines they share. *)
(***************************************************************************)
EXTENDS Prices, SetLemmas, SequenceTheorems

-----------------------------------------------------------------------------
(* Sums and roundings.                                                     *)

\* The library's sum of a function is the Total of its values.
LEMMA SumFunctionIs ==
    ASSUME NEW w, IsFiniteSet(DOMAIN w)
    PROVE  SumFunction(w) = Total(w, DOMAIN w)
  <1> DEFINE D == DOMAIN w
             P(g) == g = [s \in SUBSET D |->
                             IF s = {} THEN 0
                             ELSE LET x == CHOOSE x \in s : TRUE
                                  IN  w[x] + g[s \ {x}]]
             h == CHOOSE g : P(g)
  <1>1. SumFunction(w) = h[D]
    BY Zenon DEF SumFunction, SumFunctionOnSet, FoldFunctionOnSet, MapThenFoldSet
  <1>2. ASSUME NEW g
        PROVE  P(g) <=> IsSum(g, w, D)
    BY DEF IsSum, Weighed
  <1>4. P(h)
    <2>1. \E g : P(g)
      <3> HIDE DEF P
      <3>1. QED
        BY <1>2, SumExists
    <2> HIDE DEF P
    <2>2. QED
      BY <2>1, Zenon
  <1>5. QED
    <2>1. D \in SUBSET D
      OBVIOUS
    <2> HIDE DEF P, h
    <2>2. h[D] = Total(w, D)
      BY <1>2, <1>4, <2>1, TotalOf
    <2>3. QED
      BY <1>1, <2>2

LEMMA SumOn ==
    ASSUME NEW S, IsFiniteSet(S), NEW w, DOMAIN w = S, NEW v, \A x \in S : w[x] = v[x]
    PROVE  SumFunction(w) = Total(v, S)
  <1>1. SumFunction(w) = Total(w, S)
    BY SumFunctionIs
  <1>2. Total(w, S) = Total(v, S)
    BY TotalEqual
  <1>3. QED
    BY <1>1, <1>2

\* Sums of sums.
LEMMA TotalPlus ==
    ASSUME NEW S, IsFiniteSet(S), NEW u, NEW v, NEW w,
           \A x \in S : v[x] \in Int /\ w[x] \in Int /\ u[x] = v[x] + w[x]
    PROVE  Total(u, S) = Total(v, S) + Total(w, S)
  <1>1. \A x \in S : u[x] \in Int /\ w[x] \in Int /\ v[x] = u[x] - w[x]
    OBVIOUS
  <1>2. Total(v, S) = Total(u, S) - Total(w, S)
    BY <1>1, TotalMinus
  <1>3. Total(u, S) \in Int /\ Total(v, S) \in Int /\ Total(w, S) \in Int
    BY <1>1, TotalAdds
  <1>4. QED
    BY <1>2, <1>3

\* The same weight for everyone.
LEMMA TotalConstant ==
    ASSUME NEW S, IsFiniteSet(S), NEW k \in Int, NEW w, \A x \in S : w[x] = k
    PROVE  Total(w, S) = k * Cardinality(S)
  <1> DEFINE one == [x \in S |-> 1]
  <1>1. Total(one, S) = Cardinality(S)
    <2>1. \A x \in S : one[x] = IF x \in S THEN 1 ELSE 0
      OBVIOUS
    <2>2. S \in SUBSET S
      OBVIOUS
    <2> HIDE DEF one
    <2>3. QED
      BY <2>1, <2>2, TotalCounts
  <1>2. \A x \in S : one[x] \in Int /\ w[x] = k * one[x]
    OBVIOUS
  <1> HIDE DEF one
  <1>3. Total(w, S) = k * Total(one, S)
    BY <1>2, TotalTimes
  <1>4. QED
    BY <1>1, <1>3

\* Terms that are each at most half of k too large have a sum that is at most half of k
\* too large for each of them.
LEMMA RoundingsAddUp ==
    ASSUME NEW S, IsFiniteSet(S), NEW k \in Int, NEW v, NEW w,
           \A x \in S : v[x] \in Int /\ w[x] \in Int /\ 2 * (v[x] - w[x]) <= k
    PROVE  2 * (Total(v, S) - Total(w, S)) <= k * Cardinality(S)
  <1> DEFINE u == [x \in S |-> v[x] - w[x]]
             t == [x \in S |-> 2 * u[x]]
  <1>1. \A x \in S : v[x] \in Int /\ w[x] \in Int /\ u[x] = v[x] - w[x]
    OBVIOUS
  <1>2. \A x \in S : u[x] \in Int /\ t[x] = 2 * u[x]
    OBVIOUS
  <1>3. \A x \in S : t[x] \in Int /\ t[x] <= k
    OBVIOUS
  <1> HIDE DEF u, t
  <1>4. Total(u, S) = Total(v, S) - Total(w, S)
    BY <1>1, TotalMinus
  <1>5. Total(t, S) = 2 * Total(u, S)
    <2>1. ASSUME NEW m \in Int, \A x \in S : u[x] \in Int /\ t[x] = m * u[x]
          PROVE  Total(t, S) = m * Total(u, S)
      BY <2>1, TotalTimes
    <2>2. QED
      BY <1>2, <2>1
  <1>6. Total(t, S) <= k * Cardinality(S)
    BY <1>3, TotalBounded
  <1>7. QED
    BY <1>4, <1>5, <1>6

LEMMA WithinAddUp ==
    ASSUME NEW S, IsFiniteSet(S), NEW k \in Int, NEW v, NEW w,
           \A x \in S : v[x] \in Int /\ w[x] \in Int /\ Within(v[x], w[x], k)
    PROVE  Within(Total(v, S), Total(w, S), k * Cardinality(S))
  <1>1. \A x \in S : v[x] \in Int /\ w[x] \in Int /\ 2 * (v[x] - w[x]) <= k
    BY DEF Within
  <1>2. \A x \in S : w[x] \in Int /\ v[x] \in Int /\ 2 * (w[x] - v[x]) <= k
    BY DEF Within
  <1>3. 2 * (Total(v, S) - Total(w, S)) <= k * Cardinality(S)
    BY <1>1, RoundingsAddUp
  <1>4. 2 * (Total(w, S) - Total(v, S)) <= k * Cardinality(S)
    BY <1>2, RoundingsAddUp
  <1>5. QED
    BY <1>3, <1>4 DEF Within

\* A rounded quotient is within half of it.
LEMMA RoundedIsNear ==
    ASSUME NEW n \in Int, NEW d \in Nat \ {0}
    PROVE  /\ Rounded(n, d) \in Int
           /\ Within(d * Rounded(n, d), n, d)
           /\ n >= 0 => Rounded(n, d) >= 0
  <1> DEFINE q == (2 * n + d) \div (2 * d)
  <1>1. q \in Int /\ (2 * d) * q <= 2 * n + d /\ 2 * n + d < (2 * d) * q + 2 * d
    OBVIOUS
  <1>2. n >= 0 => q >= 0
    OBVIOUS
  <1> HIDE DEF q
  <1>3. (2 * d) * q = 2 * (d * q) /\ d * q \in Int
    BY <1>1
  <1>4. Within(d * q, n, d)
    BY <1>1, <1>3 DEF Within
  <1>5. QED
    BY <1>1, <1>2, <1>4 DEF q, Rounded

-----------------------------------------------------------------------------
(* Baskets and coupons.                                                    *)

Gross(b) == [i \in DOMAIN b |-> b[i].gross]

LEMMA BasketFacts ==
    ASSUME NEW b \in Baskets
    PROVE  /\ Len(b) \in Nat \ {0} /\ DOMAIN b = 1..Len(b) /\ Len(b) \in DOMAIN b
           /\ IsFiniteSet(DOMAIN b) /\ Cardinality(DOMAIN b) = Len(b)
           /\ \A i \in DOMAIN b : /\ b[i].gross \in Nat \ {0} /\ b[i].rate \in Nat
                                  /\ b[i].seller # Anyone /\ Gross(b)[i] = b[i].gross
           /\ Subtotal(b) = Total(Gross(b), DOMAIN b) /\ Subtotal(b) \in Nat \ {0}
  <1>1. Len(b) \in Nat \ {0} /\ DOMAIN b = 1..Len(b) /\ Len(b) \in DOMAIN b
    BY PricingAssumption
  <1>2. IsFiniteSet(DOMAIN b) /\ Cardinality(DOMAIN b) = Len(b)
    <2>1. 1 \in Int /\ Len(b) \in Int
      BY <1>1
    <2>2. IsFiniteSet(1..Len(b)) /\ Cardinality(1..Len(b)) = IF 1 > Len(b) THEN 0 ELSE Len(b) - 1 + 1
      BY <2>1, FS_Interval
    <2>3. QED
      BY <1>1, <2>2
  <1>3. \A i \in DOMAIN b : /\ b[i].gross \in Nat \ {0} /\ b[i].rate \in Nat
                            /\ b[i].seller # Anyone /\ Gross(b)[i] = b[i].gross
    <2>1. \A i \in DOMAIN b :
             b[i].gross \in Nat \ {0} /\ b[i].rate \in Nat /\ b[i].seller # Anyone
      BY PricingAssumption
    <2>2. \A i \in DOMAIN b : Gross(b)[i] = b[i].gross
      BY DEF Gross
    <2>3. QED
      BY <2>1, <2>2
  <1>4. Subtotal(b) = Total(Gross(b), DOMAIN b)
    <2>1. DOMAIN Gross(b) = DOMAIN b /\ Subtotal(b) = SumFunction(Gross(b))
      BY DEF Gross, Subtotal
    <2>2. QED
      BY <1>2, <2>1, SumFunctionIs
  <1>5. Subtotal(b) \in Nat \ {0}
    <2> DEFINE n == Len(b)
               g == Gross(b)
               S == DOMAIN b
    <2>1. IsFiniteSet(S) /\ IsFiniteSet(S \ {n}) /\ n \in S
      BY <1>1, <1>2, FS_Subset
    <2>2. \A i \in S : g[i] \in Nat /\ g[i] \in Int /\ g[i] # 0
      BY <1>3
    <2> HIDE DEF n, g, S
    <2>3. Total(g, S) = g[n] + Total(g, S \ {n})
      BY <2>1, <2>2, TotalAdds
    <2>4. Total(g, S \ {n}) \in Nat
      BY <2>1, <2>2, TotalIsNat
    <2>5. g[n] \in Nat /\ g[n] # 0
      BY <2>1, <2>2
    <2>6. Total(g, S) \in Nat \ {0}
      BY <2>3, <2>4, <2>5
    <2>7. QED
      BY <1>4, <2>6 DEF g, S
  <1>6. QED
    BY <1>1, <1>2, <1>3, <1>4, <1>5, Zenon

LEMMA CouponIsNat ==
    ASSUME NEW b \in Baskets, NEW c \in Rules
    PROVE  CouponAmount(c, b) \in Nat
  <1> DEFINE S == Subtotal(b)
  <1>1. S \in Nat
    BY BasketFacts
  <1>2. c.value \in Nat /\ c.cap \in Nat
    BY PricingAssumption
  <1> HIDE DEF S
  <1>3. S * c.value \in Int /\ S * c.value >= 0
    BY <1>1, <1>2
  <1>4. Rounded(S * c.value, 100) \in Nat
    BY <1>3, RoundedIsNear
  <1>5. QED
    BY <1>2, <1>4 DEF CouponAmount, S

LEMMA ProportionIsNear ==
    ASSUME NEW b \in Baskets, NEW c \in Rules, NEW i \in DOMAIN b
    PROVE  /\ Proportion(b, c, i) \in Int
           /\ Within(Subtotal(b) * Proportion(b, c, i), CouponAmount(c, b) * b[i].gross, Subtotal(b))
  <1>1. Subtotal(b) \in Nat \ {0} /\ CouponAmount(c, b) \in Nat /\ b[i].gross \in Nat
    BY BasketFacts, CouponIsNat
  <1>2. CouponAmount(c, b) * b[i].gross \in Int
    BY <1>1
  <1>3. QED
    BY <1>1, <1>2, RoundedIsNear DEF Proportion

\* The discounts of the lines.
LEMMA DiscountFacts ==
    ASSUME NEW b \in Baskets, NEW c \in Rules, NEW d, d = LineDiscounts(b, c)
    PROVE  /\ DOMAIN d = DOMAIN b /\ \A i \in DOMAIN b : d[i] \in Int
           /\ \A i \in DOMAIN b \ Eligible(b, c) : d[i] = 0
           /\ \A i \in Eligible(b, c) \ {Len(b)} : d[i] = Proportion(b, c, i)
           /\ Len(b) \in Eligible(b, c) =>
                 d[Len(b)] = CouponAmount(c, b) - Total(d, Eligible(b, c) \ {Len(b)})
           /\ Eligible(b, c) \subseteq DOMAIN b /\ IsFiniteSet(Eligible(b, c))
           /\ Given(d) = Total(d, DOMAIN b)
  <1> DEFINE E == Eligible(b, c)
             n == Len(b)
             R == E \ {n}
             p == [i \in R |-> Proportion(b, c, i)]
             given == SumFunction(p)
  <1>1. E \subseteq DOMAIN b /\ IsFiniteSet(E) /\ IsFiniteSet(R) /\ R \subseteq DOMAIN b
    <2>1. IsFiniteSet(DOMAIN b)
      BY BasketFacts
    <2>2. E \subseteq DOMAIN b
      BY DEF Eligible
    <2> HIDE DEF E
    <2>3. QED
      BY <2>1, <2>2, FS_Subset
  <1>2. d = [i \in DOMAIN b |-> CASE i \notin E -> 0
                                 [] i \in E /\ i = n -> CouponAmount(c, b) - given
                                 [] OTHER -> Proportion(b, c, i)]
    BY DEF LineDiscounts
  <1>3. DOMAIN p = R /\ \A i \in R : p[i] = Proportion(b, c, i)
    OBVIOUS
  <1> HIDE DEF E, p
  <1>4. /\ DOMAIN d = DOMAIN b
        /\ \A i \in DOMAIN b \ E : d[i] = 0
        /\ \A i \in R : d[i] = Proportion(b, c, i)
        /\ n \in E => d[n] = CouponAmount(c, b) - given
    BY <1>1, <1>2
  <1>5. given = Total(d, R)
    BY <1>1, <1>3, <1>4, SumOn
  <1>6. \A i \in R : d[i] \in Int
    BY <1>1, <1>4, ProportionIsNear
  <1>7. CouponAmount(c, b) - given \in Int
    <2>1. Total(d, R) \in Int
      BY <1>1, <1>6, TotalAdds
    <2>2. QED
      BY <1>5, <2>1, CouponIsNat
  <1>8. \A i \in DOMAIN b : d[i] \in Int
    BY <1>4, <1>6, <1>7
  <1>9. Given(d) = Total(d, DOMAIN b)
    <2>1. IsFiniteSet(DOMAIN d)
      <3>1. IsFiniteSet(DOMAIN b) /\ DOMAIN d = DOMAIN b
        BY <1>4, BasketFacts
      <3>2. QED
        BY <3>1
    <2>2. SumFunction(d) = Total(d, DOMAIN d)
      BY <2>1, SumFunctionIs
    <2>3. QED
      BY <1>4, <2>2 DEF Given
  <1>10. QED
    BY <1>1, <1>4, <1>5, <1>8, <1>9 DEF E

\* Multiplying is what it is in any order.
LEMMA Swapped ==
    ASSUME NEW x \in Int, NEW y \in Int
    PROVE  x * y = y * x /\ x * y \in Int
  OBVIOUS

\* An eligible line that is not the last gets its proportion, to half a poisha.
LEMMA LineIsNear ==
    ASSUME NEW b \in Baskets, NEW c \in Rules, NEW i \in Eligible(b, c) \ {Len(b)}
    PROVE  Within(LineDiscounts(b, c)[i] * Subtotal(b), CouponAmount(c, b) * b[i].gross, Subtotal(b))
  <1>1. i \in DOMAIN b /\ LineDiscounts(b, c)[i] = Proportion(b, c, i)
    BY DiscountFacts
  <1>2. /\ Proportion(b, c, i) \in Int
        /\ Within(Subtotal(b) * Proportion(b, c, i), CouponAmount(c, b) * b[i].gross, Subtotal(b))
    BY <1>1, ProportionIsNear
  <1>3. Subtotal(b) \in Int
    BY BasketFacts
  <1>4. Subtotal(b) * Proportion(b, c, i) = Proportion(b, c, i) * Subtotal(b)
    BY <1>2, <1>3, Swapped
  <1>5. QED
    BY <1>1, <1>2, <1>4

\* When the last line is eligible it takes what is left: the discounts make up the coupon.
LEMMA LastTakesTheRest ==
    ASSUME NEW b \in Baskets, NEW c \in Rules, Len(b) \in Eligible(b, c)
    PROVE  Given(LineDiscounts(b, c)) = CouponAmount(c, b)
  <1> DEFINE d == LineDiscounts(b, c)
             E == Eligible(b, c)
             n == Len(b)
             D == DOMAIN b
  <1>1. /\ \A i \in D : d[i] \in Int
        /\ \A i \in D \ E : d[i] = 0
        /\ d[n] = CouponAmount(c, b) - Total(d, E \ {n})
        /\ E \in SUBSET D /\ IsFiniteSet(E) /\ IsFiniteSet(E \ {n})
        /\ Given(d) = Total(d, D)
    <2>1. IsFiniteSet(E)
      BY DiscountFacts
    <2>2. IsFiniteSet(E \ {n})
      BY <2>1, FS_Subset
    <2>3. QED
      BY <2>1, <2>2, DiscountFacts
  <1>2. IsFiniteSet(D) /\ n \in E /\ CouponAmount(c, b) \in Int
    BY BasketFacts, CouponIsNat
  <1> HIDE DEF d, E, n, D
  <1>3. Total(d, D) = Total(d, E)
    BY <1>1, <1>2, TotalOnly
  <1>4. Total(d, E) = d[n] + Total(d, E \ {n}) /\ Total(d, E \ {n}) \in Int
    BY <1>1, <1>2, TotalAdds
  <1>5. QED
    BY <1>1, <1>2, <1>3, <1>4 DEF d

\* A coupon of the platform: the last line is as far from its proportion as the others
\* together are from theirs.
LEMMA SpreadsEvenly ==
    ASSUME NEW b \in Baskets, NEW c \in Rules, c.seller = Anyone
    PROVE  SpreadEvenly(b, c)
  <1> DEFINE d == LineDiscounts(b, c)
             A == CouponAmount(c, b)
             S == Subtotal(b)
             D == DOMAIN b
             n == Len(b)
             R == D \ {n}
             exact == [i \in D |-> A * b[i].gross]
             given == [i \in D |-> d[i] * S]
  <1>1. Eligible(b, c) = D
    BY DEF Eligible
  <1>2. Given(d) = A
    BY <1>1, BasketFacts, LastTakesTheRest
  <1>3. ASSUME NEW i \in R
        PROVE  Within(d[i] * S, A * b[i].gross, S)
    BY <1>1, LineIsNear
  <1>4. /\ A \in Int /\ S \in Int /\ n \in Nat /\ n \in D
        /\ IsFiniteSet(D) /\ Cardinality(D) = n /\ S = Total(Gross(b), D)
        /\ \A i \in D : Gross(b)[i] = b[i].gross /\ b[i].gross \in Int
    BY BasketFacts, CouponIsNat
  <1>5. IsFiniteSet(R) /\ Cardinality(R) = n - 1
    BY <1>4, FS_RemoveElement
  <1>6. (\A i \in D : d[i] \in Int) /\ Given(d) = Total(d, D)
    BY DiscountFacts
  <1>7. \A i \in D : exact[i] = A * Gross(b)[i] /\ Gross(b)[i] \in Int /\ exact[i] \in Int
    BY <1>4
  <1>8. \A i \in D : given[i] = S * d[i] /\ given[i] \in Int
    <2>1. ASSUME NEW i \in D
          PROVE  given[i] = S * d[i] /\ given[i] \in Int
      <3>1. d[i] \in Int /\ S \in Int
        BY <1>4, <1>6
      <3>2. given[i] = d[i] * S
        OBVIOUS
      <3> HIDE DEF given, d, S
      <3>3. QED
        BY <3>1, <3>2, Swapped
    <2>2. QED
      BY <2>1
  <1>9. Total(exact, D) = Total(given, D)
    <2> HIDE DEF exact, given, d, A, S, D
    <2>1. Total(exact, D) = A * Total(Gross(b), D)
      BY <1>4, <1>7, TotalTimes
    <2>2. Total(given, D) = S * Total(d, D)
      BY <1>4, <1>6, <1>8, TotalTimes
    <2>3. A * S = S * A
      BY <1>4, Swapped
    <2>4. QED
      BY <1>2, <1>4, <1>6, <2>1, <2>2, <2>3
  <1>10. Within(Total(given, R), Total(exact, R), S * (n - 1))
    <2>1. \A i \in R : given[i] \in Int /\ exact[i] \in Int /\ Within(given[i], exact[i], S)
      BY <1>3, <1>7, <1>8
    <2> HIDE DEF exact, given, S, R
    <2>2. Within(Total(given, R), Total(exact, R), S * Cardinality(R))
      BY <1>4, <1>5, <2>1, WithinAddUp
    <2>3. QED
      BY <1>5, <2>2
  <1>11. Within(given[n], exact[n], S * (n - 1))
    <2> DEFINE x == Total(exact, R)
               y == Total(given, R)
    <2>1. /\ Total(exact, D) = exact[n] + x /\ Total(given, D) = given[n] + y
          /\ exact[n] \in Int /\ given[n] \in Int
      <3> HIDE DEF exact, given, D
      <3>1. QED
        BY <1>4, <1>7, <1>8, TotalAdds
    <2>2. x \in Int /\ y \in Int
      <3>1. (\A i \in R : exact[i] \in Int) /\ (\A i \in R : given[i] \in Int)
        BY <1>7, <1>8
      <3> HIDE DEF exact, given, R
      <3>2. QED
        BY <1>5, <3>1, TotalAdds
    <2>3. S * (n - 1) \in Int
      BY <1>4
    <2>4. 2 * (y - x) <= S * (n - 1) /\ 2 * (x - y) <= S * (n - 1)
      BY <1>10 DEF Within
    <2> HIDE DEF x, y, exact, given, S, n
    <2>5. given[n] - exact[n] = x - y
      BY <1>9, <2>1, <2>2
    <2>6. exact[n] - given[n] = y - x
      BY <1>9, <2>1, <2>2
    <2>7. QED
      BY <2>4, <2>5, <2>6 DEF Within
  <1>12. ASSUME NEW i \in D
         PROVE  Within(d[i] * S, A * b[i].gross, S * IF i = n THEN n - 1 ELSE 1)
    <2>1. CASE i = n
      <3>1. given[n] = d[n] * S /\ exact[n] = A * b[n].gross
        BY <1>4
      <3> HIDE DEF given, exact
      <3>2. QED
        BY <1>11, <2>1, <3>1
    <2>2. CASE i # n
      <3>1. S * 1 = S
        BY <1>4
      <3>2. QED
        BY <1>3, <2>2, <3>1
    <2>3. QED
      BY <2>1, <2>2
  <1>13. QED
    BY <1>2, <1>12 DEF SpreadEvenly

\* A seller's coupon.
LEMMA SellersCouponHolds ==
    ASSUME NEW b \in Baskets, NEW c \in Rules
    PROVE  SellersCoupon(b, c)
  <1> DEFINE d == LineDiscounts(b, c)
             A == CouponAmount(c, b)
             S == Subtotal(b)
             D == DOMAIN b
             E == Eligible(b, c)
             own == SumFunction([i \in E |-> b[i].gross])
             exact == [i \in E |-> A * b[i].gross]
             given == [i \in E |-> d[i] * S]
  <1>1. CASE Len(b) \in E
    BY <1>1, LastTakesTheRest DEF SellersCoupon
  <1>2. CASE Len(b) \notin E
    <2>1. E \in SUBSET D /\ IsFiniteSet(E)
      BY DiscountFacts
    <2>2. /\ A \in Int /\ S \in Int /\ IsFiniteSet(D)
          /\ \A i \in D : Gross(b)[i] = b[i].gross /\ b[i].gross \in Int
      BY BasketFacts, CouponIsNat
    <2>3. /\ \A i \in D : d[i] \in Int
          /\ \A i \in D \ E : d[i] = 0
          /\ Given(d) = Total(d, D)
      BY DiscountFacts
    <2>4. Given(d) = Total(d, E)
      <3> HIDE DEF d, D, E
      <3>1. QED
        BY <2>1, <2>2, <2>3, TotalOnly
    <2>5. own = Total(Gross(b), E)
      <3> DEFINE g == [i \in E |-> b[i].gross]
      <3>1. DOMAIN g = E /\ \A i \in E : g[i] = Gross(b)[i]
        BY <2>1, <2>2
      <3> HIDE DEF g, E
      <3>2. SumFunction(g) = Total(Gross(b), E)
        BY <2>1, <3>1, SumOn
      <3>3. QED
        BY <3>2 DEF g
    <2>6. \A i \in E : exact[i] = A * Gross(b)[i] /\ Gross(b)[i] \in Int /\ exact[i] \in Int
      BY <2>1, <2>2
    <2>7. \A i \in E : given[i] = S * d[i] /\ d[i] \in Int /\ given[i] \in Int
      <3>1. ASSUME NEW i \in E
            PROVE  given[i] = S * d[i] /\ d[i] \in Int /\ given[i] \in Int
        <4>1. d[i] \in Int /\ S \in Int
          BY <2>1, <2>2, <2>3
        <4>2. given[i] = d[i] * S
          OBVIOUS
        <4> HIDE DEF given, d, S
        <4>3. QED
          BY <4>1, <4>2, Swapped
      <3>2. QED
        BY <3>1
    <2>8. \A i \in E : Within(given[i], exact[i], S)
      BY <1>2, LineIsNear
    <2>9. Within(Total(given, E), Total(exact, E), S * Cardinality(E))
      <3> HIDE DEF given, exact, S, E
      <3>1. QED
        BY <2>1, <2>2, <2>6, <2>7, <2>8, WithinAddUp
    <2>10. Total(exact, E) = A * own /\ Total(given, E) = S * Given(d)
      <3> HIDE DEF given, exact, S, E, A, d, own
      <3>1. QED
        BY <2>1, <2>2, <2>4, <2>5, <2>6, <2>7, TotalTimes
    <2>11. S * Given(d) = Given(d) * S
      <3>1. Given(d) \in Int
        <4>1. \A i \in E : d[i] \in Int
          BY <2>7
        <4> HIDE DEF d, E
        <4>2. QED
          BY <2>1, <2>4, <4>1, TotalAdds
      <3> HIDE DEF d, S
      <3>2. QED
        BY <2>2, <3>1, Swapped
    <2>12. Within(Given(d) * S, A * own, S * Cardinality(E))
      BY <2>9, <2>10, <2>11
    <2>13. QED
      BY <1>2, <2>12 DEF SellersCoupon
  <1>3. QED
    BY <1>1, <1>2

-----------------------------------------------------------------------------
(* The books: lines, groups and order.                                     *)

\* What each line contributes.
TaxOf(b, d) == [i \in DOMAIN b |-> Tax(b[i], d[i])]

PartOf(d, c) == [i \in DOMAIN d |-> SellerPart(d[i], c)]

Excess(b, d) == [i \in DOMAIN b |-> AtLeastZero(d[i] - b[i].gross)]

SellerOf(b) == [i \in DOMAIN b |-> b[i].seller]

Own(b, s) == {i \in DOMAIN b : b[i].seller = s}

\* The lines' amounts are integers; a discount's part of the seller is near his share of it.
LEMMA LineFacts ==
    ASSUME NEW b \in Baskets, NEW c \in Rules, NEW d, d = LineDiscounts(b, c), NEW i \in DOMAIN b
    PROVE  /\ d[i] \in Int /\ b[i].gross \in Int
           /\ TaxOf(b, d)[i] = Tax(b[i], d[i]) /\ TaxOf(b, d)[i] \in Int
           /\ Excess(b, d)[i] = AtLeastZero(d[i] - b[i].gross) /\ Excess(b, d)[i] \in Int
           /\ PartOf(d, c)[i] = SellerPart(d[i], c) /\ PartOf(d, c)[i] \in Int
           /\ Within(100 * PartOf(d, c)[i], d[i] * c.share, 100)
           /\ Net(b[i], d[i]) = b[i].gross - d[i] + Excess(b, d)[i]
           /\ d[i] * c.share \in Int
  <1>1. d[i] \in Int /\ DOMAIN d = DOMAIN b
    BY DiscountFacts
  <1>2. b[i].gross \in Int
    BY BasketFacts
  <1>3. c.share \in Int
    BY PricingAssumption
  <1>4. Net(b[i], d[i]) \in Int
    BY <1>1, <1>2 DEF Net, AtLeastZero
  <1>5. Tax(b[i], d[i]) \in Int
    <2>1. b[i].rate \in Int
      BY PricingAssumption
    <2>2. Net(b[i], d[i]) * b[i].rate \in Int
      BY <1>4, <2>1
    <2>3. 10000 \in Nat \ {0}
      OBVIOUS
    <2>4. QED
      BY <2>2, <2>3, RoundedIsNear DEF Tax
  <1>6. AtLeastZero(d[i] - b[i].gross) \in Int
    BY <1>1, <1>2 DEF AtLeastZero
  <1>7. Net(b[i], d[i]) = b[i].gross - d[i] + AtLeastZero(d[i] - b[i].gross)
    BY <1>1, <1>2 DEF Net, AtLeastZero
  <1>8. d[i] * c.share \in Int
    BY <1>1, <1>3
  <1>9. SellerPart(d[i], c) \in Int /\ Within(100 * SellerPart(d[i], c), d[i] * c.share, 100)
    BY <1>8, RoundedIsNear DEF SellerPart
  <1>10. /\ TaxOf(b, d)[i] = Tax(b[i], d[i])
         /\ Excess(b, d)[i] = AtLeastZero(d[i] - b[i].gross)
         /\ PartOf(d, c)[i] = SellerPart(d[i], c)
    BY <1>1 DEF TaxOf, Excess, PartOf
  <1>11. QED
    BY <1>1, <1>2, <1>5, <1>6, <1>7, <1>8, <1>9, <1>10

\* What the groups say of any weight of the lines makes up the sum over the lines.
LEMMA GroupsMakeUp ==
    ASSUME NEW b \in Baskets, NEW w, \A i \in DOMAIN b : w[i] \in Int,
           NEW sums, \A s \in Sellers(b) : sums[s] = Total(w, Own(b, s))
    PROVE  Total(sums, Sellers(b)) = Total(w, DOMAIN b) /\ \A s \in Sellers(b) : sums[s] \in Int
  <1> DEFINE D == DOMAIN b
             C == Sellers(b)
             of == SellerOf(b)
             lines == [s \in C |-> Own(b, s)]
  <1>1. IsFiniteSet(D)
    BY BasketFacts
  <1>2. \A i \in D : of[i] = b[i].seller /\ of[i] \in C
    BY DEF SellerOf, Sellers
  <1>3. IsFiniteSet(C)
    <2>1. of \in Surjection(D, C)
      BY DEF Surjection, SellerOf, Sellers
    <2> HIDE DEF D, C, of
    <2>2. QED
      BY <1>1, <2>1, FS_Surjection
  <1>4. \A s \in C : /\ lines[s] = {i \in D : of[i] = s}
                     /\ sums[s] = Total(w, lines[s])
    BY <1>2 DEF Own
  <1>5. \A i \in D : w[i] \in Int
    OBVIOUS
  <1> HIDE DEF D, C, of, lines
  <1>6. Total(sums, C) = Total(w, D) /\ \A s \in C : sums[s] \in Int
    <2>1. \A i \in D : of[i] \in C
      BY <1>2
    <2>2. QED
      BY <1>1, <1>3, <1>4, <1>5, <2>1, TotalByClass
  <1>7. QED
    BY <1>6 DEF C, D

\* The amounts of a group, as sums over the lines of its seller.
LEMMA GroupFacts ==
    ASSUME NEW b \in Baskets, NEW c \in Rules, NEW d, d = LineDiscounts(b, c), NEW s \in Sellers(b),
           NEW own, own = Own(b, s), NEW g, g = Groups(b, d, c)[s]
    PROVE  /\ g.discount = Total(d, own)
           /\ g.byseller = Total(PartOf(d, c), own)
           /\ g.payout + g.commission
                = Total(Gross(b), own) - Total(d, own) + Fee + Total(TaxOf(b, d), own)
  <1> DEFINE gross == SumFunction([i \in own |-> b[i].gross])
             discount == SumFunction([i \in own |-> d[i]])
             tax == SumFunction([i \in own |-> Tax(b[i], d[i])])
             part == SumFunction([i \in own |-> SellerPart(d[i], c)])
             total == gross - discount + Fee + tax
             commission == (gross * CommissionBps) \div 10000
  <1>1. g = [discount |-> discount, byseller |-> part, total |-> total,
             commission |-> commission, payout |-> total - commission]
    BY DEF Groups, GroupOf, Own
  <1>2. IsFiniteSet(own) /\ \A i \in own : i \in DOMAIN b
    <2>1. IsFiniteSet(DOMAIN b) /\ own \subseteq DOMAIN b
      BY BasketFacts DEF Own
    <2>2. QED
      BY <2>1, FS_Subset
  <1>3. gross = Total(Gross(b), own) /\ \A i \in own : Gross(b)[i] \in Int
    <2> DEFINE f == [i \in own |-> b[i].gross]
    <2>1. DOMAIN f = own /\ \A i \in own : f[i] = Gross(b)[i] /\ Gross(b)[i] \in Int
      BY <1>2, BasketFacts
    <2> HIDE DEF f
    <2>2. SumFunction(f) = Total(Gross(b), own)
      BY <1>2, <2>1, SumOn
    <2>3. QED
      BY <2>1, <2>2 DEF f
  <1>4. discount = Total(d, own) /\ \A i \in own : d[i] \in Int
    <2> DEFINE f == [i \in own |-> d[i]]
    <2>1. DOMAIN f = own /\ \A i \in own : f[i] = d[i] /\ d[i] \in Int
      BY <1>2, LineFacts
    <2> HIDE DEF f
    <2>2. SumFunction(f) = Total(d, own)
      BY <1>2, <2>1, SumOn
    <2>3. QED
      BY <2>1, <2>2 DEF f
  <1>5. tax = Total(TaxOf(b, d), own) /\ \A i \in own : TaxOf(b, d)[i] \in Int
    <2> DEFINE f == [i \in own |-> Tax(b[i], d[i])]
    <2>1. DOMAIN f = own /\ \A i \in own : f[i] = TaxOf(b, d)[i] /\ TaxOf(b, d)[i] \in Int
      BY <1>2, LineFacts
    <2> HIDE DEF f
    <2>2. SumFunction(f) = Total(TaxOf(b, d), own)
      BY <1>2, <2>1, SumOn
    <2>3. QED
      BY <2>1, <2>2 DEF f
  <1>6. part = Total(PartOf(d, c), own)
    <2> DEFINE f == [i \in own |-> SellerPart(d[i], c)]
    <2>1. DOMAIN f = own /\ \A i \in own : f[i] = PartOf(d, c)[i]
      BY <1>2, LineFacts
    <2> HIDE DEF f
    <2>2. SumFunction(f) = Total(PartOf(d, c), own)
      BY <1>2, <2>1, SumOn
    <2>3. QED
      BY <2>2 DEF f
  <1> HIDE DEF gross, discount, tax, part
  <1>7. gross \in Int /\ discount \in Int /\ tax \in Int /\ Fee \in Int
    <2>1. Total(Gross(b), own) \in Int
      BY <1>2, <1>3, TotalAdds
    <2>2. Total(d, own) \in Int
      BY <1>2, <1>4, TotalAdds
    <2>3. Total(TaxOf(b, d), own) \in Int
      BY <1>2, <1>5, TotalAdds
    <2>4. Fee \in Int
      BY PricingAssumption
    <2>5. QED
      BY <1>3, <1>4, <1>5, <2>1, <2>2, <2>3, <2>4
  <1>8. commission \in Int
    BY <1>7 DEF CommissionBps
  <1>9. total - commission + commission = total
    <2>1. total \in Int
      BY <1>7
    <2> HIDE DEF total, commission
    <2>2. QED
      BY <1>8, <2>1
  <1>10. g.discount = discount /\ g.byseller = part /\ g.payout + g.commission = total
    <2> HIDE DEF total, commission
    <2>1. g.discount = discount /\ g.byseller = part /\ g.payout = total - commission
             /\ g.commission = commission
      BY <1>1
    <2>2. QED
      BY <1>9, <2>1
  <1>11. QED
    BY <1>3, <1>4, <1>5, <1>6, <1>10

\* The amounts that the whole order is made of.
LEMMA SumFacts ==
    ASSUME NEW b \in Baskets, NEW c \in Rules, NEW d, d = LineDiscounts(b, c)
    PROVE  /\ IsFiniteSet(DOMAIN b) /\ IsFiniteSet(Sellers(b)) /\ Cardinality(Sellers(b)) \in Nat
           /\ Fee * Cardinality(Sellers(b)) \in Int
           /\ Subtotal(b) = Total(Gross(b), DOMAIN b) /\ Subtotal(b) \in Int
           /\ Given(d) = Total(d, DOMAIN b) /\ Given(d) \in Int
           /\ Total(TaxOf(b, d), DOMAIN b) \in Int
           /\ Total(Excess(b, d), DOMAIN b) \in Int
           /\ Total(PartOf(d, c), DOMAIN b) \in Int
  <1>1. IsFiniteSet(DOMAIN b) /\ Subtotal(b) = Total(Gross(b), DOMAIN b) /\ Subtotal(b) \in Int
    BY BasketFacts
  <1>2. IsFiniteSet(Sellers(b))
    <2>1. SellerOf(b) \in Surjection(DOMAIN b, Sellers(b))
      BY DEF Surjection, SellerOf, Sellers
    <2>2. QED
      BY <1>1, <2>1, FS_Surjection
  <1>3. Cardinality(Sellers(b)) \in Nat
    BY <1>2, FS_CardinalityType
  <1>4. Fee * Cardinality(Sellers(b)) \in Int
    <2>1. Fee \in Nat
      BY PricingAssumption
    <2>2. QED
      BY <1>3, <2>1
  <1>5. Given(d) = Total(d, DOMAIN b) /\ \A i \in DOMAIN b : d[i] \in Int
    BY DiscountFacts
  <1>6. /\ \A i \in DOMAIN b : TaxOf(b, d)[i] \in Int
        /\ \A i \in DOMAIN b : Excess(b, d)[i] \in Int
        /\ \A i \in DOMAIN b : PartOf(d, c)[i] \in Int
    BY LineFacts
  <1>7. Given(d) \in Int
    BY <1>1, <1>5, TotalAdds
  <1>8. Total(TaxOf(b, d), DOMAIN b) \in Int
    BY <1>1, <1>6, TotalAdds
  <1>9. Total(Excess(b, d), DOMAIN b) \in Int
    BY <1>1, <1>6, TotalAdds
  <1>10. Total(PartOf(d, c), DOMAIN b) \in Int
    BY <1>1, <1>6, TotalAdds
  <1>11. QED
    BY <1>1, <1>2, <1>3, <1>4, <1>5, <1>7, <1>8, <1>9, <1>10

\* What the order comes to, from the lines.
Worth(b, d) ==
    Subtotal(b) - Given(d) + Fee * Cardinality(Sellers(b)) + Total(TaxOf(b, d), DOMAIN b)

LEMMA OrderIs ==
    ASSUME NEW b \in Baskets, NEW c \in Rules, NEW d, d = LineDiscounts(b, c)
    PROVE  OrderTotal(b, d, c) = Worth(b, d)
  <1> DEFINE C == Sellers(b)
             off == [s \in C |-> Groups(b, d, c)[s].discount]
             tax == [i \in DOMAIN b |-> Tax(b[i], d[i])]
  <1>1. IsFiniteSet(C) /\ Given(d) = Total(d, DOMAIN b)
    BY SumFacts
  <1>2. SumFunction(off) = Given(d)
    <2>1. \A s \in C : off[s] = Total(d, Own(b, s))
      BY GroupFacts
    <2>2. \A i \in DOMAIN b : d[i] \in Int
      BY LineFacts
    <2>3. DOMAIN off = C
      OBVIOUS
    <2> HIDE DEF off, C
    <2>4. SumFunction(off) = Total(off, C)
      BY <1>1, <2>3, SumFunctionIs
    <2>5. Total(off, C) = Total(d, DOMAIN b)
      BY <2>1, <2>2, GroupsMakeUp DEF C
    <2>6. QED
      BY <1>1, <2>4, <2>5
  <1>3. SumFunction(tax) = Total(TaxOf(b, d), DOMAIN b)
    <2>1. IsFiniteSet(DOMAIN b) /\ DOMAIN tax = DOMAIN b /\ tax = TaxOf(b, d)
      BY SumFacts DEF TaxOf
    <2> HIDE DEF tax
    <2>2. QED
      BY <2>1, SumFunctionIs
  <1>4. OrderTotal(b, d, c)
          = Subtotal(b) - SumFunction(off) + Fee * Cardinality(C) + SumFunction(tax)
    BY DEF OrderTotal
  <1> HIDE DEF off, tax
  <1>5. QED
    BY <1>2, <1>3, <1>4 DEF Worth

\* What is paid to sellers and kept from them is what the order comes to.
LEMMA DueIs ==
    ASSUME NEW b \in Baskets, NEW c \in Rules, NEW d, d = LineDiscounts(b, c)
    PROVE  SumFunction([s \in Sellers(b) |->
                           Groups(b, d, c)[s].payout + Groups(b, d, c)[s].commission])
             = Worth(b, d)
  <1> DEFINE C == Sellers(b)
             due == [s \in C |-> Groups(b, d, c)[s].payout + Groups(b, d, c)[s].commission]
             gross == [s \in C |-> Total(Gross(b), Own(b, s))]
             off == [s \in C |-> Total(d, Own(b, s))]
             tax == [s \in C |-> Total(TaxOf(b, d), Own(b, s))]
             fee == [s \in C |-> Fee]
             kept == [s \in C |-> gross[s] - off[s]]
             sent == [s \in C |-> kept[s] + fee[s]]
  <1>1. IsFiniteSet(C) /\ DOMAIN due = C
    BY SumFacts
  <1>2. Total(gross, C) = Subtotal(b) /\ \A s \in C : gross[s] \in Int
    <2>1. \A i \in DOMAIN b : Gross(b)[i] \in Int
      BY BasketFacts
    <2>2. \A s \in C : gross[s] = Total(Gross(b), Own(b, s))
      OBVIOUS
    <2> HIDE DEF gross
    <2>3. Total(gross, C) = Total(Gross(b), DOMAIN b) /\ \A s \in C : gross[s] \in Int
      BY <2>1, <2>2, GroupsMakeUp
    <2>4. QED
      BY <2>3, SumFacts
  <1>3. Total(off, C) = Given(d) /\ \A s \in C : off[s] \in Int
    <2>1. \A i \in DOMAIN b : d[i] \in Int
      BY LineFacts
    <2>2. \A s \in C : off[s] = Total(d, Own(b, s))
      OBVIOUS
    <2> HIDE DEF off
    <2>3. Total(off, C) = Total(d, DOMAIN b) /\ \A s \in C : off[s] \in Int
      BY <2>1, <2>2, GroupsMakeUp
    <2>4. QED
      BY <2>3, SumFacts
  <1>4. Total(tax, C) = Total(TaxOf(b, d), DOMAIN b) /\ \A s \in C : tax[s] \in Int
    <2>1. \A i \in DOMAIN b : TaxOf(b, d)[i] \in Int
      BY LineFacts
    <2>2. \A s \in C : tax[s] = Total(TaxOf(b, d), Own(b, s))
      OBVIOUS
    <2> HIDE DEF tax
    <2>3. QED
      BY <2>1, <2>2, GroupsMakeUp
  <1>5. Total(fee, C) = Fee * Cardinality(C) /\ \A s \in C : fee[s] \in Int
    <2>1. Fee \in Int
      BY PricingAssumption
    <2>2. \A s \in C : fee[s] = Fee
      OBVIOUS
    <2> HIDE DEF fee, C
    <2>3. QED
      BY <1>1, <2>1, <2>2, TotalConstant
  <1>6. \A s \in C : due[s] = gross[s] - off[s] + Fee + tax[s] /\ fee[s] = Fee
    <2>1. ASSUME NEW s \in C
          PROVE  due[s] = Total(Gross(b), Own(b, s)) - Total(d, Own(b, s)) + Fee
                            + Total(TaxOf(b, d), Own(b, s))
      BY GroupFacts
    <2>2. QED
      BY <2>1
  <1>7. \A s \in C : gross[s] \in Int /\ off[s] \in Int /\ kept[s] = gross[s] - off[s]
    BY <1>2, <1>3
  <1>8. \A s \in C : kept[s] \in Int /\ fee[s] \in Int /\ sent[s] = kept[s] + fee[s]
    BY <1>2, <1>3, <1>5
  <1>9. \A s \in C : sent[s] \in Int /\ tax[s] \in Int /\ due[s] = sent[s] + tax[s]
    <2> HIDE DEF due, gross, off, tax, fee
    <2>1. QED
      BY <1>4, <1>6, <1>7, <1>8
  <1> HIDE DEF due, gross, off, tax, fee, kept, sent, C
  <1>10. Total(kept, C) = Total(gross, C) - Total(off, C)
    BY <1>1, <1>7, TotalMinus
  <1>11. Total(sent, C) = Total(kept, C) + Total(fee, C)
    BY <1>1, <1>8, TotalPlus
  <1>12. Total(due, C) = Total(sent, C) + Total(tax, C)
    BY <1>1, <1>9, TotalPlus
  <1>13. SumFunction(due) = Worth(b, d)
    <2>1. SumFunction(due) = Total(due, C)
      BY <1>1, SumFunctionIs
    <2>2. QED
      BY <1>2, <1>3, <1>4, <1>5, <1>10, <1>11, <1>12, <2>1 DEF Worth, C
  <1>14. QED
    BY <1>13 DEF due, C

\* What the lines come to: discounts that exceed their price are not taken back.
LEMMA LinesAre ==
    ASSUME NEW b \in Baskets, NEW c \in Rules, NEW d, d = LineDiscounts(b, c)
    PROVE  SumFunction([i \in DOMAIN b |-> LineTotal(b[i], d[i])])
             = Subtotal(b) - Given(d) + Total(Excess(b, d), DOMAIN b) + Total(TaxOf(b, d), DOMAIN b)
  <1> DEFINE D == DOMAIN b
             line == [i \in D |-> LineTotal(b[i], d[i])]
             left == [i \in D |-> b[i].gross - d[i]]
             net == [i \in D |-> left[i] + Excess(b, d)[i]]
  <1>1. IsFiniteSet(D) /\ DOMAIN line = D
    BY SumFacts
  <1>2. \A i \in D : Gross(b)[i] \in Int /\ d[i] \in Int /\ left[i] = Gross(b)[i] - d[i]
    <2>1. \A i \in D : Gross(b)[i] = b[i].gross
      BY BasketFacts
    <2>2. \A i \in D : b[i].gross \in Int /\ d[i] \in Int
      BY LineFacts
    <2>3. QED
      BY <2>1, <2>2
  <1>3. \A i \in D : left[i] \in Int /\ Excess(b, d)[i] \in Int /\ net[i] = left[i] + Excess(b, d)[i]
    <2>1. \A i \in D : Excess(b, d)[i] \in Int
      BY LineFacts
    <2>2. QED
      BY <1>2, <2>1
  <1>4. \A i \in D : net[i] \in Int /\ TaxOf(b, d)[i] \in Int /\ line[i] = net[i] + TaxOf(b, d)[i]
    <2>1. ASSUME NEW i \in D
          PROVE  net[i] \in Int /\ TaxOf(b, d)[i] \in Int /\ line[i] = net[i] + TaxOf(b, d)[i]
      <3>1. /\ TaxOf(b, d)[i] = Tax(b[i], d[i]) /\ TaxOf(b, d)[i] \in Int
            /\ Net(b[i], d[i]) = b[i].gross - d[i] + Excess(b, d)[i]
        BY LineFacts
      <3>2. line[i] = Net(b[i], d[i]) + Tax(b[i], d[i])
        BY DEF LineTotal
      <3>3. net[i] = b[i].gross - d[i] + Excess(b, d)[i]
        OBVIOUS
      <3>4. net[i] \in Int
        BY <1>3
      <3> HIDE DEF net, line
      <3>5. QED
        BY <3>1, <3>2, <3>3, <3>4
    <2>2. QED
      BY <2>1
  <1> HIDE DEF line, left, net, D
  <1>5. Total(left, D) = Total(Gross(b), D) - Total(d, D)
    BY <1>1, <1>2, TotalMinus
  <1>6. Total(net, D) = Total(left, D) + Total(Excess(b, d), D)
    BY <1>1, <1>3, TotalPlus
  <1>7. Total(line, D) = Total(net, D) + Total(TaxOf(b, d), D)
    BY <1>1, <1>4, TotalPlus
  <1>8. SumFunction(line) = Total(line, D)
    BY <1>1, SumFunctionIs
  <1>9. Subtotal(b) = Total(Gross(b), D) /\ Given(d) = Total(d, D)
    BY SumFacts DEF D
  <1>10. QED
    BY <1>5, <1>6, <1>7, <1>8, <1>9 DEF line, D

\* A coupon of the platform that is worth no more than the basket exceeds no line but the
\* last, and that one by no more than the roundings of the others.
LEMMA ExcessIsSmall ==
    ASSUME NEW b \in Baskets, NEW c \in Rules, NEW d, d = LineDiscounts(b, c),
           c.seller = Anyone, CouponAmount(c, b) <= Subtotal(b)
    PROVE  2 * Total(Excess(b, d), DOMAIN b) <= Len(b) - 1
  <1> DEFINE A == CouponAmount(c, b)
             S == Subtotal(b)
             D == DOMAIN b
             n == Len(b)
             over == Excess(b, d)
  <1>1. A \in Nat /\ S \in Nat \ {0} /\ n \in Nat \ {0} /\ n \in D /\ IsFiniteSet(D) /\ A <= S
    BY BasketFacts, CouponIsNat
  <1>2. ASSUME NEW i \in D
        PROVE  Within(d[i] * S, A * b[i].gross, S * IF i = n THEN n - 1 ELSE 1)
    BY SpreadsEvenly DEF SpreadEvenly
  <1>3. ASSUME NEW i \in D
        PROVE  /\ d[i] \in Int /\ b[i].gross \in Nat
               /\ over[i] = AtLeastZero(d[i] - b[i].gross) /\ over[i] \in Int
    <2>1. b[i].gross \in Nat
      BY BasketFacts
    <2>2. QED
      BY <2>1, LineFacts
  \* A discount that is near a part of the price is near the price, or below it.
  <1>4. ASSUME NEW x \in Int, NEW g \in Nat, NEW k \in Nat, Within(x * S, A * g, S * k)
        PROVE  2 * (x - g) <= k
    <2>1. 2 * (x * S - A * g) <= S * k
      BY <1>4 DEF Within
    <2>2. A * g <= S * g
      BY <1>1
    <2>3. x * S = S * x /\ S * (2 * (x - g)) = 2 * (S * x - S * g)
      <3>1. S * (2 * (x - g)) = 2 * (S * x - S * g)
        BY <1>1
      <3>2. QED
        BY <1>1, <3>1
    <2>4. x * S \in Int /\ S * x \in Int /\ S * g \in Int /\ A * g \in Int /\ S * k \in Int
      BY <1>1
    <2>5. S * (2 * (x - g)) <= S * k
      BY <2>1, <2>2, <2>3, <2>4
    <2> HIDE DEF S
    <2>6. ASSUME NEW y \in Int, S * y <= S * k
          PROVE  y <= k
      BY <1>1, <2>6
    <2>7. 2 * (x - g) \in Int
      OBVIOUS
    <2>8. QED
      BY <2>5, <2>6, <2>7
  <1>5. ASSUME NEW i \in D \ {n}
        PROVE  over[i] = 0
    <2>1. Within(d[i] * S, A * b[i].gross, S * 1)
      <3>1. i # n
        OBVIOUS
      <3>2. QED
        BY <1>2, <3>1
    <2>2. 2 * (d[i] - b[i].gross) <= 1
      BY <1>3, <1>4, <2>1
    <2>3. d[i] - b[i].gross <= 0
      BY <1>3, <2>2
    <2>4. QED
      BY <1>3, <2>3 DEF AtLeastZero
  <1>6. 2 * over[n] <= n - 1
    <2>1. Within(d[n] * S, A * b[n].gross, S * (n - 1)) /\ n - 1 \in Nat
      BY <1>1, <1>2
    <2>2. 2 * (d[n] - b[n].gross) <= n - 1
      BY <1>1, <1>3, <1>4, <2>1
    <2>3. QED
      BY <1>1, <1>3, <2>2 DEF AtLeastZero
  <1>7. Total(over, D) = Total(over, {n}) /\ Total(over, {n}) = over[n]
    <2>1. (\A i \in D : over[i] \in Int) /\ (\A i \in D \ {n} : over[i] = 0) /\ {n} \in SUBSET D
      BY <1>1, <1>3, <1>5
    <2>2. IsFiniteSet({n}) /\ {n} \ {n} = {} /\ n \in {n} /\ \A i \in {n} : over[i] \in Int
      BY <1>1, <2>1, FS_Singleton
    <2> HIDE DEF over, D, n
    <2>3. Total(over, D) = Total(over, {n})
      BY <1>1, <2>1, TotalOnly
    <2>4. Total(over, {n}) = over[n] + Total(over, {n} \ {n}) /\ Total(over, {}) = 0
      BY <2>2, TotalAdds
    <2>5. QED
      BY <2>2, <2>3, <2>4
  <1>8. QED
    BY <1>6, <1>7

\* What the groups say the seller pays, against his share of the discount.
LEMMA SellersPay ==
    ASSUME NEW b \in Baskets, NEW c \in Rules, NEW d, d = LineDiscounts(b, c)
    PROVE  Within(100 * SumFunction([s \in Sellers(b) |-> Groups(b, d, c)[s].byseller]),
                  Given(d) * c.share, 100 * Len(b))
  <1> DEFINE C == Sellers(b)
             D == DOMAIN b
             pays == [s \in C |-> Groups(b, d, c)[s].byseller]
             part == PartOf(d, c)
             times == [i \in D |-> 100 * part[i]]
             due == [i \in D |-> c.share * d[i]]
  <1>1. /\ IsFiniteSet(C) /\ IsFiniteSet(D) /\ Cardinality(D) = Len(b) /\ c.share \in Int
        /\ Given(d) = Total(d, D) /\ Given(d) \in Int
    <2>1. c.share \in Int
      BY PricingAssumption
    <2>2. QED
      BY <2>1, SumFacts, BasketFacts
  <1>2. SumFunction(pays) = Total(part, D)
    <2>1. \A s \in C : pays[s] = Total(part, Own(b, s))
      BY GroupFacts
    <2>2. \A i \in D : part[i] \in Int
      BY LineFacts
    <2>3. DOMAIN pays = C
      OBVIOUS
    <2> HIDE DEF pays, C, part
    <2>4. SumFunction(pays) = Total(pays, C)
      BY <1>1, <2>3, SumFunctionIs
    <2>5. Total(pays, C) = Total(part, D)
      BY <2>1, <2>2, GroupsMakeUp DEF C
    <2>6. QED
      BY <2>4, <2>5
  <1>3. ASSUME NEW i \in D
        PROVE  /\ part[i] \in Int /\ d[i] \in Int
               /\ times[i] = 100 * part[i] /\ times[i] \in Int
               /\ due[i] = c.share * d[i] /\ due[i] \in Int
               /\ Within(times[i], due[i], 100)
    <2>1. part[i] \in Int /\ d[i] \in Int /\ Within(100 * part[i], d[i] * c.share, 100)
      BY LineFacts
    <2>2. d[i] * c.share = c.share * d[i] /\ c.share * d[i] \in Int
      BY <1>1, <2>1, Swapped
    <2>3. times[i] = 100 * part[i] /\ due[i] = c.share * d[i]
      OBVIOUS
    <2>4. times[i] \in Int
      BY <2>1, <2>3
    <2> HIDE DEF times, due, part
    <2>5. QED
      BY <2>1, <2>2, <2>3, <2>4
  <1> HIDE DEF times, due, part, D, C
  <1>4. Within(Total(times, D), Total(due, D), 100 * Cardinality(D))
    <2>1. ASSUME NEW k \in Int, \A i \in D : Within(times[i], due[i], k)
          PROVE  Within(Total(times, D), Total(due, D), k * Cardinality(D))
      BY <1>1, <1>3, <2>1, WithinAddUp
    <2>2. QED
      BY <1>3, <2>1
  <1>5. Total(times, D) = 100 * Total(part, D)
    <2>1. ASSUME NEW k \in Int, \A i \in D : times[i] = k * part[i]
          PROVE  Total(times, D) = k * Total(part, D)
      BY <1>1, <1>3, <2>1, TotalTimes
    <2>2. QED
      BY <1>3, <2>1
  <1>6. Total(due, D) = Given(d) * c.share
    <2>1. Total(due, D) = c.share * Total(d, D)
      BY <1>1, <1>3, TotalTimes
    <2>2. QED
      BY <1>1, <2>1, Swapped
  <1>7. QED
    BY <1>1, <1>2, <1>4, <1>5, <1>6 DEF C

LEMMA BooksAgreeHolds ==
    ASSUME NEW b \in Baskets, NEW c \in Rules
    PROVE  BooksAgree(b, c)
  <1> DEFINE d == LineDiscounts(b, c)
             groups == Groups(b, d, c)
             excess == SumFunction([i \in DOMAIN b |-> AtLeastZero(d[i] - b[i].gross)])
             lines == SumFunction([i \in DOMAIN b |-> LineTotal(b[i], d[i])])
             due == SumFunction([s \in Sellers(b) |-> groups[s].payout + groups[s].commission])
             byseller == SumFunction([s \in Sellers(b) |-> groups[s].byseller])
             shipping == Fee * Cardinality(Sellers(b))
  <1>1. excess = Total(Excess(b, d), DOMAIN b)
    <2>1. DOMAIN Excess(b, d) = DOMAIN b /\ excess = SumFunction(Excess(b, d))
      BY DEF Excess
    <2>2. IsFiniteSet(DOMAIN Excess(b, d))
      BY <2>1, BasketFacts
    <2>3. SumFunction(Excess(b, d)) = Total(Excess(b, d), DOMAIN Excess(b, d))
      BY <2>2, SumFunctionIs
    <2>4. QED
      BY <2>1, <2>3
  <1>2. OrderTotal(b, d, c) = Worth(b, d)
    BY OrderIs
  <1>3. due = Worth(b, d)
    BY DueIs
  <1>4. lines = Subtotal(b) - Given(d) + excess + Total(TaxOf(b, d), DOMAIN b)
    BY <1>1, LinesAre
  <1>5. /\ shipping \in Int /\ Subtotal(b) \in Int /\ Given(d) \in Int /\ excess \in Int
        /\ Total(TaxOf(b, d), DOMAIN b) \in Int
    BY <1>1, SumFacts
  <1>6. Worth(b, d) = lines + shipping - excess
    <2> HIDE DEF d, excess, lines
    <2>1. Worth(b, d) = Subtotal(b) - Given(d) + shipping + Total(TaxOf(b, d), DOMAIN b)
      BY DEF Worth
    <2> HIDE DEF shipping
    <2>2. QED
      BY <1>4, <1>5, <2>1
  <1>7. c.seller = Anyone /\ CouponAmount(c, b) <= Subtotal(b) => 2 * excess <= Len(b) - 1
    BY <1>1, ExcessIsSmall
  <1>8. Within(100 * byseller, Given(d) * c.share, 100 * Len(b))
    BY SellersPay
  <1>9. /\ OrderTotal(b, d, c) = due
        /\ OrderTotal(b, d, c) = lines + shipping - excess
    BY <1>2, <1>3, <1>6
  <1> HIDE DEF d, groups, excess, lines, due, byseller
  <1>10. QED
    BY <1>7, <1>8, <1>9 DEF BooksAgree, d, groups, excess, lines, due, byseller

-----------------------------------------------------------------------------
(* The amounts of a checkout.                                              *)

\* For every basket and every coupon: the discounts of the lines make up a coupon of the
\* platform, each line being within half a poisha of its proportion but the last, which carries
\* what the others were rounded by.  They make up a seller's coupon when the basket ends with a
\* line of that seller; otherwise they are the part of it that is his lines' proportion of the
\* basket, within half a poisha a line.  What the customer, the sellers and the platform read
\* of the same calculation agrees in either case (AmountsAgree: calculateCheckout).
THEOREM PricesAgree == AmountsAgree
  <1>1. ASSUME NEW b \in Baskets, NEW c \in Rules
        PROVE  /\ IF c.seller = Anyone THEN SpreadEvenly(b, c) ELSE SellersCoupon(b, c)
               /\ BooksAgree(b, c)
    BY SpreadsEvenly, SellersCouponHolds, BooksAgreeHolds
  <1>2. QED
    BY <1>1 DEF AmountsAgree

-----------------------------------------------------------------------------
(* One rule.                                                               *)

\* Min and Max of one or two numbers.
LEMMA MinOf ==
    ASSUME NEW x \in Int, NEW y \in Int
    PROVE  /\ Min({x, y}) = IF x <= y THEN x ELSE y
           /\ Max({x, y}) = IF x <= y THEN y ELSE x
           /\ Min({x}) = x
  <1> DEFINE small == IF x <= y THEN x ELSE y
             large == IF x <= y THEN y ELSE x
  <1>1. small \in {x, y} /\ \A z \in {x, y} : small <= z
    OBVIOUS
  <1>2. large \in {x, y} /\ \A z \in {x, y} : large >= z
    OBVIOUS
  <1>3. ASSUME NEW z \in {x, y}, \A t \in {x, y} : z <= t
        PROVE  z = small
    BY <1>3
  <1>4. ASSUME NEW z \in {x, y}, \A t \in {x, y} : z >= t
        PROVE  z = large
    BY <1>4
  <1>5. Min({x, y}) = small
    <2> HIDE DEF small
    <2>1. QED
      BY <1>1, <1>3 DEF Min
  <1>6. Max({x, y}) = large
    <2> HIDE DEF large
    <2>1. QED
      BY <1>2, <1>4 DEF Max
  <1>7. Min({x}) = x
    BY DEF Min
  <1>8. QED
    BY <1>5, <1>6, <1>7

\* Lines have a last one.
LEMMA MaxOf ==
    ASSUME NEW S, IsFiniteSet(S), S # {}, \A x \in S : x \in Int
    PROVE  Max(S) \in S
  <1> DEFINE before == [s \in S |-> {t \in S : t < s}]
  <1>1. /\ \A s \in S : s \notin before[s]
        /\ \A s, t \in S : s # t => s \in before[t] \/ t \in before[s]
        /\ \A s, t \in S : s \in before[t] => before[s] \subseteq before[t]
    <2>1. \A s \in S : s \notin before[s]
      OBVIOUS
    <2>2. \A s, t \in S : s # t => s \in before[t] \/ t \in before[s]
      OBVIOUS
    <2>3. ASSUME NEW s \in S, NEW t \in S, s \in before[t], NEW u \in before[s]
          PROVE  u \in before[t]
      BY <2>3
    <2>4. QED
      BY <2>1, <2>2, <2>3
  <1>2. PICK s \in S : S \ {s} \subseteq before[s]
    <2> HIDE DEF before
    <2>1. QED
      BY <1>1, FirstInOrder
  <1>3. \A t \in S : s >= t
    BY <1>2
  <1>4. QED
    BY <1>3 DEF Max

LEMMA QuoteFacts ==
    ASSUME NEW q \in Quotes
    PROVE  /\ IsFiniteSet(DOMAIN q) /\ \A i \in DOMAIN q : i \in Int
           /\ \A i \in DOMAIN q : /\ q[i].unit \in Nat \ {0} /\ q[i].quantity \in Nat \ {0}
                                  /\ LinePrice(q[i]) \in Nat \ {0}
  <1>1. Len(q) \in Nat \ {0} /\ DOMAIN q = 1..Len(q)
    BY PromotionAssumption
  <1>2. IsFiniteSet(DOMAIN q)
    <2>1. 1 \in Int /\ Len(q) \in Int
      BY <1>1
    <2>2. IsFiniteSet(1..Len(q))
      BY <2>1, FS_Interval
    <2>3. QED
      BY <1>1, <2>2
  <1>3. \A i \in DOMAIN q : q[i].unit \in Nat \ {0} /\ q[i].quantity \in Nat \ {0}
    BY PromotionAssumption
  <1>4. \A i \in DOMAIN q : LinePrice(q[i]) \in Nat \ {0}
    BY <1>3 DEF LinePrice
  <1>5. QED
    BY <1>1, <1>2, <1>3, <1>4

\* What the campaigns hold.
IsRule(r) ==
    /\ r.kind \in {"PERCENTAGE", "FIXED_AMOUNT", "BUY_X_GET_Y", "FREE_SHIPPING"}
    /\ r.value \in Nat /\ r.percent \in Nat
    /\ r.buy \in Nat \ {0} /\ r.get \in Nat \ {0} /\ r.share \in Nat
    /\ r.cap \subseteq Nat /\ \A m, n \in r.cap : m = n

LEMMA CampaignFacts ==
    ASSUME NEW rules \in Campaigns
    PROVE  /\ IsFiniteSet(DOMAIN rules)
           /\ \A k \in DOMAIN rules : /\ k \in Int /\ IsRule(rules[k])
                                      /\ rules[k].priority \in Int /\ rules[k].value \in Int
  <1>1. Len(rules) \in Nat /\ DOMAIN rules = 1..Len(rules)
    BY PromotionAssumption
  <1>2. IsFiniteSet(DOMAIN rules)
    <2>1. 1 \in Int /\ Len(rules) \in Int
      BY <1>1
    <2>2. IsFiniteSet(1..Len(rules))
      BY <2>1, FS_Interval
    <2>3. QED
      BY <1>1, <2>2
  <1>3. ASSUME NEW k \in DOMAIN rules
        PROVE  k \in Int /\ IsRule(rules[k]) /\ rules[k].priority \in Int /\ rules[k].value \in Int
    <2>1. /\ rules[k].kind \in {"PERCENTAGE", "FIXED_AMOUNT", "BUY_X_GET_Y", "FREE_SHIPPING"}
          /\ rules[k].priority \in Int /\ rules[k].value \in Nat /\ rules[k].percent \in Nat
          /\ rules[k].buy \in Nat \ {0} /\ rules[k].get \in Nat \ {0} /\ rules[k].share \in Nat
      BY PromotionAssumption
    <2>2. rules[k].cap \subseteq Nat /\ \A m, n \in rules[k].cap : m = n
      BY PromotionAssumption
    <2>3. QED
      BY <1>1, <2>1, <2>2 DEF IsRule
  <1>4. QED
    BY <1>2, <1>3

\* Each line its part and the last one the rest, which is no less than nothing if the parts
\* do not exceed the total.
LEMMA SpreadFacts ==
    ASSUME NEW S, IsFiniteSet(S), S # {}, \A x \in S : x \in Int, NEW total \in Int,
           NEW part, \A x \in S : part[x] \in Nat, Total(part, S) <= total,
           NEW w, w = Spread(S, total, part)
    PROVE  /\ DOMAIN w = S /\ \A x \in S : w[x] \in Nat
           /\ Total(w, S) = total
  <1> DEFINE m == Max(S)
             R == S \ {m}
             p == [x \in R |-> part[x]]
             given == SumFunction(p)
  <1>1. m \in S
    BY MaxOf
  <1>2. IsFiniteSet(R)
    BY FS_Subset
  <1>3. /\ \A x \in S : part[x] \in Int /\ part[x] \in Nat
        /\ \A x \in R : part[x] \in Int
        /\ DOMAIN p = R /\ \A x \in R : p[x] = part[x]
    OBVIOUS
  <1>4. w = [x \in S |-> IF x = m THEN total - given ELSE part[x]]
    BY DEF Spread
  <1> HIDE DEF m, p
  <1>5. given = Total(part, R)
    <2> HIDE DEF R
    <2>1. QED
      BY <1>2, <1>3, SumOn
  <1>6. Total(part, S) = part[m] + Total(part, R)
    BY <1>1, <1>3, TotalAdds
  <1>7. Total(part, R) \in Int
    <2> HIDE DEF R
    <2>1. QED
      BY <1>2, <1>3, TotalAdds
  <1>8. total - given \in Nat
    <2>1. part[m] \in Nat
      BY <1>1, <1>3
    <2>2. QED
      BY <1>5, <1>6, <1>7, <2>1
  <1>9. DOMAIN w = S /\ \A x \in S : w[x] \in Nat /\ w[x] \in Int
    BY <1>1, <1>3, <1>4, <1>8
  <1>10. Total(w, S) = total
    <2>1. Total(w, S) = w[m] + Total(w, R)
      BY <1>1, <1>9, TotalAdds
    <2>2. w[m] = total - given /\ \A x \in R : w[x] = part[x]
      BY <1>1, <1>4
    <2>3. Total(w, R) = Total(part, R)
      <3> HIDE DEF R
      <3>1. QED
        BY <1>2, <2>2, TotalEqual
    <2>4. QED
      BY <1>5, <1>7, <2>1, <2>2, <2>3
  <1>11. QED
    BY <1>9, <1>10

\* Parts that are rounded down do not exceed the total rounded down.
LEMMA FloorsAddUp ==
    ASSUME NEW S, IsFiniteSet(S), NEW v \in Nat, NEW m \in Nat \ {0}, NEW price, NEW part,
           \A x \in S : price[x] \in Nat /\ part[x] = (price[x] * v) \div m
    PROVE  /\ \A x \in S : part[x] \in Nat
           /\ Total(part, S) <= (Total(price, S) * v) \div m
           /\ Total(price, S) \in Nat /\ (Total(price, S) * v) \div m \in Nat
  <1> DEFINE times == [x \in S |-> m * part[x]]
             value == [x \in S |-> v * price[x]]
             less == [x \in S |-> times[x] - value[x]]
  <1>1. ASSUME NEW x \in S
        PROVE  part[x] \in Nat /\ m * part[x] <= v * price[x] /\ m * part[x] \in Int /\ v * price[x] \in Int
    <2>1. ASSUME NEW n \in Nat
          PROVE  n \div m \in Nat /\ m * (n \div m) <= n
      OBVIOUS
    <2>2. price[x] * v \in Nat /\ price[x] * v = v * price[x]
      OBVIOUS
    <2>3. part[x] \in Nat /\ m * part[x] <= price[x] * v
      BY <2>1, <2>2
    <2>4. m * part[x] \in Int
      BY <2>3
    <2>5. QED
      BY <2>2, <2>3, <2>4
  <1>2. /\ \A x \in S : part[x] \in Int /\ times[x] \in Int /\ times[x] = m * part[x]
        /\ \A x \in S : price[x] \in Int /\ value[x] \in Int /\ value[x] = v * price[x]
    BY <1>1
  <1>3. \A x \in S : less[x] \in Int /\ less[x] <= 0 /\ less[x] = times[x] - value[x]
    BY <1>1
  <1> HIDE DEF times, value, less
  <1>4. Total(times, S) = m * Total(part, S) /\ Total(value, S) = v * Total(price, S)
    <2>1. Total(times, S) = m * Total(part, S)
      <3>1. m \in Int
        OBVIOUS
      <3>2. QED
        BY <1>2, <3>1, TotalTimes
    <2>2. Total(value, S) = v * Total(price, S)
      <3>1. v \in Int
        OBVIOUS
      <3>2. QED
        BY <1>2, <3>1, TotalTimes
    <2>3. QED
      BY <2>1, <2>2
  <1>5. Total(less, S) = Total(times, S) - Total(value, S)
    BY <1>2, <1>3, TotalMinus
  <1>6. Total(less, S) <= 0
    <2>1. ASSUME NEW k \in Int, \A x \in S : less[x] \in Int /\ less[x] <= k
          PROVE  Total(less, S) <= k * Cardinality(S)
      BY <2>1, TotalBounded
    <2>2. Total(less, S) <= 0 * Cardinality(S) /\ Cardinality(S) \in Nat
      BY <1>3, <2>1, FS_CardinalityType
    <2>3. QED
      BY <2>2
  <1>7. Total(part, S) \in Int /\ Total(price, S) \in Nat
    BY <1>2, TotalAdds, TotalIsNat
  <1>8. ASSUME NEW x \in Int, NEW y \in Nat, m * x <= v * y
        PROVE  x <= (y * v) \div m /\ (y * v) \div m \in Nat
    <2>1. y * v \in Nat /\ y * v = v * y
      OBVIOUS
    <2> DEFINE n == y * v
               f == n \div m
    <2>2. f \in Nat /\ n < m * f + m /\ m * f \in Int
      BY <2>1
    <2>3. m * x < m * (f + 1)
      <3>1. m * (f + 1) = m * f + m
        BY <2>2
      <3>2. m * x <= n /\ m * x \in Int
        BY <1>8, <2>1
      <3> HIDE DEF n, f
      <3>3. QED
        BY <2>1, <2>2, <3>1, <3>2 DEF n
    <2> HIDE DEF f
    <2>4. x < f + 1
      BY <2>2, <2>3
    <2>5. QED
      BY <2>2, <2>4 DEF f
  <1>9. m * Total(part, S) <= v * Total(price, S)
    <2>1. m * Total(part, S) \in Int /\ v * Total(price, S) \in Int
      BY <1>7
    <2>2. QED
      BY <1>4, <1>5, <1>6, <2>1
  <1>10. QED
    BY <1>1, <1>7, <1>8, <1>9

LinePrices(q) == [i \in DOMAIN q |-> LinePrice(q[i])]

\* Worth and units of some of the lines.
LEMMA LineSums ==
    ASSUME NEW q \in Quotes, NEW S, S \subseteq DOMAIN q
    PROVE  /\ IsFiniteSet(S) /\ \A i \in S : LinePrices(q)[i] = LinePrice(q[i])
           /\ WorthOf(q, S) = Total(LinePrices(q), S) /\ WorthOf(q, S) \in Nat
           /\ UnitsOf(q, S) \in Nat
  <1> DEFINE p == [i \in S |-> LinePrice(q[i])]
             u == [i \in S |-> q[i].quantity]
  <1>1. IsFiniteSet(S)
    BY QuoteFacts, FS_Subset
  <1>2. DOMAIN p = S /\ \A i \in S : p[i] = LinePrices(q)[i] /\ p[i] \in Nat
    BY QuoteFacts DEF LinePrices
  <1>3. DOMAIN u = S /\ \A i \in S : u[i] \in Nat
    BY QuoteFacts
  <1>4. WorthOf(q, S) = SumFunction(p) /\ UnitsOf(q, S) = SumFunction(u)
    BY DEF WorthOf, UnitsOf
  <1>5. \A i \in S : LinePrices(q)[i] = LinePrice(q[i])
    BY DEF LinePrices
  <1> HIDE DEF p, u
  <1>6. SumFunction(p) = Total(LinePrices(q), S)
    BY <1>1, <1>2, SumOn
  <1>7. SumFunction(p) = Total(p, S) /\ Total(p, S) \in Nat
    <2>1. SumFunction(p) = Total(p, S)
      BY <1>1, <1>2, SumFunctionIs
    <2>2. Total(p, S) \in Nat
      BY <1>1, <1>2, TotalIsNat
    <2>3. QED
      BY <2>1, <2>2
  <1>8. SumFunction(u) = Total(u, S) /\ Total(u, S) \in Nat
    <2>1. SumFunction(u) = Total(u, S)
      BY <1>1, <1>3, SumFunctionIs
    <2>2. Total(u, S) \in Nat
      BY <1>1, <1>3, TotalIsNat
    <2>3. QED
      BY <2>1, <2>2
  <1>9. QED
    BY <1>1, <1>4, <1>5, <1>6, <1>7, <1>8

\* Units given away, and what they are worth, are no less than nothing.
LEMMA GivenAwayFacts ==
    ASSUME NEW q \in Quotes, NEW rule, IsRule(rule)
    PROVE  /\ DOMAIN GivenAway(q, rule) = Meant(q, rule)
           /\ \A i \in Meant(q, rule) : GivenAway(q, rule)[i] \in Nat
  <1> DEFINE lines == Meant(q, rule)
             free == (UnitsOf(q, lines) \div (rule.buy + rule.get)) * rule.get
             cheaper(i) == {j \in lines : q[j].unit < q[i].unit \/ (q[j].unit = q[i].unit /\ j < i)}
             left(i) == free - UnitsOf(q, cheaper(i))
  <1>1. lines \subseteq DOMAIN q
    BY DEF Meant
  <1>2. free \in Int
    <2>1. UnitsOf(q, lines) \in Nat
      BY <1>1, LineSums
    <2>2. rule.buy + rule.get \in Nat \ {0} /\ rule.get \in Nat
      BY DEF IsRule
    <2>3. UnitsOf(q, lines) \div (rule.buy + rule.get) \in Int
      BY <2>1, <2>2
    <2>4. QED
      BY <2>2, <2>3
  <1>3. ASSUME NEW i \in lines
        PROVE  FreeUnits(q, lines, rule)[i] \in Nat
    <2>1. cheaper(i) \subseteq DOMAIN q
      BY <1>1
    <2>2. UnitsOf(q, cheaper(i)) \in Nat
      <3> HIDE DEF cheaper
      <3>1. QED
        BY <2>1, LineSums
    <2>3. left(i) \in Int /\ q[i].quantity \in Int
      BY <1>1, <1>2, <2>2, QuoteFacts
    <2>4. FreeUnits(q, lines, rule)[i] = Max({0, Min({q[i].quantity, left(i)})})
      BY DEF FreeUnits
    <2> HIDE DEF left, lines
    <2>5. Min({q[i].quantity, left(i)}) \in Int
      BY <2>3, MinOf
    <2>6. ASSUME NEW x \in Int
          PROVE  Max({0, x}) \in Nat
      <3>1. 0 \in Int
        OBVIOUS
      <3>2. Max({0, x}) = IF 0 <= x THEN x ELSE 0
        BY <3>1, MinOf
      <3>3. QED
        BY <3>2
    <2>7. QED
      BY <2>4, <2>5, <2>6
  <1>4. ASSUME NEW i \in lines
        PROVE  GivenAway(q, rule)[i] \in Nat
    <2>1. GivenAway(q, rule)[i] = (q[i].unit * FreeUnits(q, lines, rule)[i] * rule.percent) \div 10000
      BY DEF GivenAway
    <2>2. q[i].unit \in Nat /\ FreeUnits(q, lines, rule)[i] \in Nat /\ rule.percent \in Nat
      BY <1>1, <1>3, QuoteFacts DEF IsRule
    <2>3. ASSUME NEW x \in Nat, NEW y \in Nat, NEW z \in Nat
          PROVE  (x * y * z) \div 10000 \in Nat
      <3>1. x * y * z \in Nat
        OBVIOUS
      <3>2. QED
        BY <3>1
    <2>4. QED
      BY <2>1, <2>2, <2>3
  <1>5. DOMAIN GivenAway(q, rule) = lines
    BY DEF GivenAway
  <1>6. QED
    BY <1>4, <1>5

\* The parts of the lines make up what a rule takes altogether.
LEMMA AllocatedFacts ==
    ASSUME NEW q \in Quotes, NEW rule, IsRule(rule), ~OfShipping(rule), Meant(q, rule) # {},
           NEW a, a = Allocated(q, rule)
    PROVE  /\ DOMAIN a = Meant(q, rule) /\ \A i \in Meant(q, rule) : a[i] \in Nat
           /\ Total(a, Meant(q, rule)) = Raw(q, rule) /\ Raw(q, rule) \in Nat
  <1> DEFINE S == Meant(q, rule)
             price == LinePrices(q)
             worth == WorthOf(q, S)
             raw == Raw(q, rule)
  <1>1. S \subseteq DOMAIN q
    BY DEF Meant
  <1>2. /\ IsFiniteSet(S) /\ S # {} /\ \A i \in S : i \in Int
        /\ \A i \in S : price[i] = LinePrice(q[i]) /\ price[i] \in Nat /\ price[i] # 0
        /\ worth = Total(price, S) /\ worth \in Nat
    <2>1. \A i \in S : i \in Int /\ LinePrice(q[i]) \in Nat /\ LinePrice(q[i]) # 0
      BY <1>1, QuoteFacts
    <2>2. /\ IsFiniteSet(S) /\ \A i \in S : price[i] = LinePrice(q[i])
          /\ worth = Total(price, S) /\ worth \in Nat
      BY <1>1, LineSums
    <2>3. QED
      BY <2>1, <2>2
  <1>3. rule.value \in Nat
    BY DEF IsRule
  <1>4. CASE rule.kind = "PERCENTAGE"
    <2> DEFINE part == [i \in S |-> (LinePrice(q[i]) * rule.value) \div 10000]
    <2>1. raw = (worth * rule.value) \div 10000
      BY <1>4 DEF Raw
    <2>2. a = Spread(S, raw, part)
      BY <1>4 DEF Allocated
    <2>3. \A i \in S : price[i] \in Nat /\ part[i] = (price[i] * rule.value) \div 10000
      BY <1>2
    <2> HIDE DEF part, price, raw, worth, S
    <2>4. ASSUME NEW m \in Nat \ {0}, \A i \in S : price[i] \in Nat /\ part[i] = (price[i] * rule.value) \div m
          PROVE  /\ \A i \in S : part[i] \in Nat
                 /\ Total(part, S) <= (worth * rule.value) \div m
                 /\ (worth * rule.value) \div m \in Nat
      <3>1. /\ \A i \in S : part[i] \in Nat
            /\ Total(part, S) <= (Total(price, S) * rule.value) \div m
            /\ Total(price, S) \in Nat /\ (Total(price, S) * rule.value) \div m \in Nat
        BY <1>2, <1>3, <2>4, FloorsAddUp, Zenon
      <3>2. QED
        BY <1>2, <3>1
    <2>5. /\ \A i \in S : part[i] \in Nat
          /\ Total(part, S) <= raw /\ raw \in Nat /\ raw \in Int
      BY <2>1, <2>3, <2>4
    <2>6. DOMAIN a = S /\ (\A i \in S : a[i] \in Nat) /\ Total(a, S) = raw
      BY <1>2, <2>2, <2>5, SpreadFacts
    <2>7. QED
      BY <2>5, <2>6 DEF S, raw
  <1>5. CASE rule.kind = "FIXED_AMOUNT"
    <2> DEFINE part == [i \in S |-> (raw * LinePrice(q[i])) \div worth]
    <2>1. raw = Min({rule.value, worth})
      BY <1>5 DEF Raw
    <2>2. a = Spread(S, raw, part)
      BY <1>5 DEF Allocated
    <2>3. raw \in Nat /\ raw <= worth
      <3>1. rule.value \in Int /\ worth \in Int
        BY <1>2, <1>3
      <3> HIDE DEF raw, worth
      <3>2. Min({rule.value, worth}) = IF rule.value <= worth THEN rule.value ELSE worth
        BY <3>1, MinOf
      <3>3. QED
        BY <1>2, <1>3, <2>1, <3>2
    <2>4. worth \in Nat \ {0}
      <3>1. PICK i \in S : TRUE
        BY <1>2
      <3>2. Total(price, S) = price[i] + Total(price, S \ {i}) /\ IsFiniteSet(S \ {i})
        <4>1. \A j \in S : price[j] \in Int
          BY <1>2
        <4> HIDE DEF S, price, worth
        <4>2. QED
          BY <1>2, <3>1, <4>1, TotalAdds, FS_Subset
      <3>3. Total(price, S \ {i}) \in Nat
        <4>1. \A j \in S \ {i} : price[j] \in Nat
          BY <1>2
        <4> HIDE DEF S, price, worth
        <4>2. QED
          BY <3>2, <4>1, TotalIsNat
      <3>4. price[i] \in Nat /\ price[i] # 0
        BY <1>2, <3>1
      <3> HIDE DEF price, worth
      <3>5. QED
        BY <1>2, <3>2, <3>3, <3>4
    <2>5. \A i \in S : price[i] \in Nat /\ part[i] = (price[i] * raw) \div worth
      <3>1. ASSUME NEW i \in S
            PROVE  part[i] = (price[i] * raw) \div worth
        <4>1. price[i] = LinePrice(q[i]) /\ price[i] \in Nat /\ part[i] = (raw * LinePrice(q[i])) \div worth
          BY <1>2
        <4> HIDE DEF part, price, raw, worth
        <4>2. raw * price[i] = price[i] * raw
          BY <2>3, <4>1
        <4>3. QED
          BY <4>1, <4>2
      <3>2. QED
        BY <1>2, <3>1
    <2> HIDE DEF part, price, raw, worth, S
    <2>6. /\ \A i \in S : part[i] \in Nat
          /\ Total(part, S) <= (Total(price, S) * raw) \div worth
      <3>1. ASSUME NEW v \in Nat, NEW m \in Nat \ {0},
                   \A i \in S : price[i] \in Nat /\ part[i] = (price[i] * v) \div m
            PROVE  /\ \A i \in S : part[i] \in Nat
                   /\ Total(part, S) <= (Total(price, S) * v) \div m
                   /\ Total(price, S) \in Nat /\ (Total(price, S) * v) \div m \in Nat
        <4>1. IsFiniteSet(S)
          BY <1>2
        <4>2. QED
          BY <3>1, <4>1, FloorsAddUp, Zenon
      <3>2. QED
        BY <2>3, <2>4, <2>5, <3>1
    <2>7. (Total(price, S) * raw) \div worth = raw
      <3>1. ASSUME NEW x \in Nat, NEW m \in Nat \ {0}
            PROVE  (m * x) \div m = x
        OBVIOUS
      <3>2. QED
        BY <1>2, <2>3, <2>4, <3>1
    <2>8. (\A i \in S : part[i] \in Nat) /\ Total(part, S) <= raw /\ raw \in Int
      BY <2>3, <2>6, <2>7
    <2>9. DOMAIN a = S /\ (\A i \in S : a[i] \in Nat) /\ Total(a, S) = raw
      BY <1>2, <2>2, <2>8, SpreadFacts
    <2>10. QED
      BY <2>3, <2>9 DEF S, raw
  <1>6. CASE rule.kind = "BUY_X_GET_Y"
    <2>1. a = GivenAway(q, rule) /\ raw = SumFunction(a)
      BY <1>6 DEF Allocated, Raw
    <2>2. DOMAIN a = S /\ \A i \in S : a[i] \in Nat
      BY <2>1, GivenAwayFacts
    <2> HIDE DEF S, raw
    <2>3. SumFunction(a) = Total(a, S)
      BY <1>2, <2>2, SumFunctionIs
    <2>4. Total(a, S) \in Nat
      BY <1>2, <2>2, TotalIsNat
    <2>5. QED
      BY <2>1, <2>2, <2>3, <2>4 DEF S, raw
  <1>7. rule.kind \in {"PERCENTAGE", "FIXED_AMOUNT", "BUY_X_GET_Y"}
    BY DEF IsRule, OfShipping
  <1>8. QED
    BY <1>4, <1>5, <1>6, <1>7

\* What evaluateDiscountRule promises of an offer.
Offered(q, rule, o) ==
    /\ o = [rule |-> rule, amount |-> o.amount, parts |-> o.parts,
            seller |-> o.seller, platform |-> o.platform]
    /\ o.parts \in [DOMAIN q -> Nat]
    /\ o.amount \in Nat \ {0} /\ o.seller + o.platform = o.amount
    /\ IF OfShipping(rule) THEN (\A i \in DOMAIN q : o.parts[i] = 0) /\ o.amount <= Freight
       ELSE \/ o.amount = Total(o.parts, DOMAIN q)
            \/ o.amount < Total(o.parts, DOMAIN q) /\ o.amount \in rule.cap

LEMMA CapFacts ==
    ASSUME NEW rule, IsRule(rule), NEW raw \in Nat, NEW amount, amount = Min({raw} \cup rule.cap)
    PROVE  amount \in Nat /\ (amount = raw \/ (amount < raw /\ amount \in rule.cap))
  <1>1. CASE rule.cap = {}
    <2>1. {raw} \cup rule.cap = {raw} /\ raw \in Int
      BY <1>1
    <2>2. amount = raw
      BY <2>1, MinOf
    <2>3. QED
      BY <2>2
  <1>2. CASE rule.cap # {}
    <2>1. PICK n \in rule.cap : TRUE
      BY <1>2
    <2>2. n \in Nat /\ {raw} \cup rule.cap = {raw, n}
      BY <2>1 DEF IsRule
    <2>3. raw \in Int /\ n \in Int
      BY <2>2
    <2>4. Min({raw, n}) = IF raw <= n THEN raw ELSE n
      BY <2>3, MinOf
    <2>5. QED
      BY <2>1, <2>2, <2>4
  <1>3. QED
    BY <1>1, <1>2

LEMMA EvaluatedFacts ==
    ASSUME NEW q \in Quotes, NEW rule, IsRule(rule), NEW o \in Evaluated(q, rule)
    PROVE  Offered(q, rule, o)
  <1> DEFINE D == DOMAIN q
             S == Meant(q, rule)
             parts == [i \in D |-> IF OfShipping(rule) \/ i \notin S THEN 0 ELSE Allocated(q, rule)[i]]
             amount == Min({Raw(q, rule)} \cup rule.cap)
             seller == SellerPays(rule, amount)
  <1>1. /\ Reached(q, rule) /\ amount > 0
        /\ o = [rule |-> rule, amount |-> amount, parts |-> parts,
                seller |-> seller, platform |-> amount - seller]
    BY DEF Evaluated
  <1>2. S \subseteq D /\ IsFiniteSet(D) /\ IsFiniteSet(S)
    BY QuoteFacts, FS_Subset DEF Meant
  <1>3. ~OfShipping(rule) => S # {}
    BY <1>1 DEF Reached, OfShipping
  <1>4. /\ ~OfShipping(rule) => /\ \A i \in S : parts[i] \in Nat /\ parts[i] = Allocated(q, rule)[i]
                                /\ Total(Allocated(q, rule), S) = Raw(q, rule)
        /\ Raw(q, rule) \in Nat
    <2>1. CASE OfShipping(rule)
      BY <2>1, PromotionAssumption DEF Raw
    <2>2. CASE ~OfShipping(rule)
      <3>1. /\ \A i \in S : Allocated(q, rule)[i] \in Nat
            /\ Total(Allocated(q, rule), S) = Raw(q, rule) /\ Raw(q, rule) \in Nat
        BY <1>3, <2>2, AllocatedFacts
      <3>2. QED
        BY <1>2, <2>2, <3>1
    <2>3. QED
      BY <2>1, <2>2
  <1>5. /\ DOMAIN parts = D /\ \A i \in D : parts[i] \in Nat
        /\ OfShipping(rule) => \A i \in D : parts[i] = 0
        /\ \A i \in D \ S : parts[i] = 0
    BY <1>4
  <1>6. ~OfShipping(rule) => Total(parts, D) = Raw(q, rule)
    <2> SUFFICES ASSUME ~OfShipping(rule)
                 PROVE  Total(parts, D) = Raw(q, rule)
      OBVIOUS
    <2>1. (\A i \in S : parts[i] = Allocated(q, rule)[i]) /\ \A i \in D : parts[i] \in Int
      BY <1>4, <1>5
    <2> HIDE DEF parts, D, S
    <2>2. Total(parts, D) = Total(parts, S)
      BY <1>2, <1>5, <2>1, TotalOnly
    <2>3. Total(parts, S) = Total(Allocated(q, rule), S)
      BY <1>2, <2>1, TotalEqual
    <2>4. QED
      BY <1>4, <2>2, <2>3 DEF S
  <1>7. amount \in Nat /\ (amount = Raw(q, rule) \/ (amount < Raw(q, rule) /\ amount \in rule.cap))
    BY <1>4, CapFacts
  <1>8. OfShipping(rule) => Raw(q, rule) = Freight /\ Freight \in Nat
    BY PromotionAssumption DEF Raw
  <1> HIDE DEF parts, amount, D, S
  <1>9. seller \in Int /\ seller + (amount - seller) = amount
    <2>1. rule.share \in Nat
      BY DEF IsRule
    <2>2. ASSUME NEW x \in Nat, NEW y \in Nat
          PROVE  (x * y) \div 10000 \in Int
      OBVIOUS
    <2>3. seller \in Int
      BY <1>7, <2>1, <2>2 DEF SellerPays
    <2> HIDE DEF seller
    <2>4. QED
      BY <1>7, <2>3
  <1> HIDE DEF seller
  <1>10. /\ o.amount = amount /\ o.parts = parts /\ o.seller = seller /\ o.platform = amount - seller
         /\ o = [rule |-> rule, amount |-> o.amount, parts |-> o.parts,
                 seller |-> o.seller, platform |-> o.platform]
    BY <1>1
  <1>11. o.amount \in Nat \ {0} /\ o.seller + o.platform = o.amount
    BY <1>1, <1>7, <1>9, <1>10
  <1>12. IF OfShipping(rule) THEN (\A i \in D : o.parts[i] = 0) /\ o.amount <= Freight
         ELSE \/ o.amount = Total(o.parts, D)
              \/ o.amount < Total(o.parts, D) /\ o.amount \in rule.cap
    BY <1>4, <1>5, <1>6, <1>7, <1>8, <1>10
  <1>13. o.parts \in [D -> Nat]
    BY <1>5, <1>10 DEF parts
  <1>14. QED
    BY <1>10, <1>11, <1>12, <1>13 DEF Offered, D

\* What the properties say of an offer that was applied.
Fine(q, o) ==
    /\ DOMAIN o.parts = DOMAIN q /\ \A i \in DOMAIN q : o.parts[i] \in Nat
    /\ o.amount \in 1..(o.seller + o.platform) \/ o.rule.cap # {}
    /\ IF OfShipping(o.rule) THEN SumFunction(o.parts) = 0 /\ o.amount <= Freight
       ELSE \/ o.amount = SumFunction(o.parts)
            \/ o.amount < SumFunction(o.parts) /\ o.amount \in o.rule.cap

\* Parts that weigh nothing add up to nothing.
LEMMA TotalOfNothing ==
    ASSUME NEW S, IsFiniteSet(S), NEW w, \A x \in S : w[x] = 0
    PROVE  Total(w, S) = 0
  <1>1. \A x \in S : w[x] \in Int
    OBVIOUS
  <1>2. {} \in SUBSET S /\ \A x \in S \ {} : w[x] = 0
    OBVIOUS
  <1>3. Total(w, S) = Total(w, {})
    BY <1>1, <1>2, TotalOnly
  <1>4. QED
    BY <1>1, <1>3, TotalAdds

\* An offer that is cut to what is left is fine.
LEMMA FittedFacts ==
    ASSUME NEW q \in Quotes, NEW rule, IsRule(rule), NEW o, Offered(q, rule, o),
           NEW left, DOMAIN left = DOMAIN q, \A i \in DOMAIN q : left[i] \in Nat,
           NEW f, f = Fitted(o, left), f.amount > 0
    PROVE  Fine(q, f) /\ \A i \in DOMAIN q : f.parts[i] <= left[i]
  <1> DEFINE D == DOMAIN q
             cut == [i \in DOMAIN left |-> Min({o.parts[i], left[i]})]
  <1>1. IsFiniteSet(D)
    BY QuoteFacts
  <1>2. DOMAIN o.parts = D /\ \A i \in D : o.parts[i] \in Nat
    BY DEF Offered
  <1>3. ASSUME NEW i \in D
        PROVE  cut[i] \in Nat /\ cut[i] <= left[i] /\ cut[i] <= o.parts[i]
    <2>1. o.parts[i] \in Int /\ left[i] \in Int /\ o.parts[i] \in Nat /\ left[i] \in Nat
      BY <1>2
    <2>2. cut[i] = Min({o.parts[i], left[i]})
      OBVIOUS
    <2>3. Min({o.parts[i], left[i]}) = IF o.parts[i] <= left[i] THEN o.parts[i] ELSE left[i]
      BY <2>1, MinOf
    <2> HIDE DEF cut
    <2>4. QED
      BY <2>1, <2>2, <2>3
  <1>4. DOMAIN cut = D
    OBVIOUS
  <1>5. f = IF cut = o.parts THEN o ELSE [o EXCEPT !.parts = cut, !.amount = SumFunction(cut)]
    BY DEF Fitted
  <1> HIDE DEF cut, D
  <1>6. SumFunction(o.parts) = Total(o.parts, D) /\ SumFunction(cut) = Total(cut, D)
    <2>1. SumFunction(o.parts) = Total(o.parts, D)
      BY <1>1, <1>2, SumFunctionIs
    <2>2. SumFunction(cut) = Total(cut, D)
      BY <1>1, <1>4, SumFunctionIs
    <2>3. QED
      BY <2>1, <2>2
  <1>7. CASE cut = o.parts
    <2>1. f = o /\ f.rule = rule
      BY <1>5, <1>7 DEF Offered
    <2>2. OfShipping(rule) => Total(o.parts, D) = 0
      <3>1. OfShipping(rule) => \A i \in D : o.parts[i] = 0
        BY DEF Offered, D
      <3>2. QED
        BY <1>1, <3>1, TotalOfNothing
    <2>3. IF OfShipping(rule) THEN SumFunction(f.parts) = 0 /\ f.amount <= Freight
          ELSE \/ f.amount = SumFunction(f.parts)
               \/ f.amount < SumFunction(f.parts) /\ f.amount \in rule.cap
      BY <1>6, <2>1, <2>2 DEF Offered, D
    <2>4. f.amount \in 1..(f.seller + f.platform)
      <3>1. o.amount \in Nat \ {0} /\ o.seller + o.platform = o.amount
        BY DEF Offered
      <3>2. QED
        BY <2>1, <3>1
    <2>5. Fine(q, f)
      BY <1>2, <2>1, <2>3, <2>4 DEF Fine, D
    <2>6. \A i \in D : f.parts[i] <= left[i]
      BY <1>3, <1>7, <2>1
    <2>7. QED
      BY <2>5, <2>6 DEF D
  <1>8. CASE cut # o.parts
    <2>1. /\ f.rule = rule /\ f.parts = cut /\ f.amount = SumFunction(cut)
          /\ f.seller = o.seller /\ f.platform = o.platform
      BY <1>5, <1>8 DEF Offered
    <2>2. ~OfShipping(rule)
      <3>1. SUFFICES ASSUME OfShipping(rule)
                     PROVE  FALSE
        OBVIOUS
      <3>2. \A i \in D : o.parts[i] = 0
        BY <3>1 DEF Offered, D
      <3>3. \A i \in D : cut[i] = o.parts[i]
        BY <1>3, <3>2
      <3>4. cut = [i \in D |-> cut[i]] /\ o.parts = [i \in D |-> o.parts[i]]
        <4>1. cut = [i \in D |-> cut[i]]
          BY DEF cut, D
        <4>2. o.parts = [i \in D |-> o.parts[i]]
          <5>1. o.parts \in [D -> Nat]
            BY DEF Offered, D
          <5>2. QED
            BY <5>1
        <4>3. QED
          BY <4>1, <4>2
      <3>5. QED
        BY <1>8, <3>3, <3>4
    <2>3. Total(cut, D) <= Total(o.parts, D) /\ Total(cut, D) \in Nat
      <3> DEFINE more == [i \in D |-> o.parts[i] - cut[i]]
      <3>1. \A i \in D : o.parts[i] \in Int /\ cut[i] \in Int /\ cut[i] \in Nat
        BY <1>2, <1>3
      <3>2. \A i \in D : more[i] = o.parts[i] - cut[i] /\ more[i] \in Nat
        BY <1>2, <1>3
      <3> HIDE DEF more
      <3>3. Total(more, D) = Total(o.parts, D) - Total(cut, D)
        BY <1>1, <3>1, <3>2, TotalMinus
      <3>4. Total(more, D) \in Nat /\ Total(cut, D) \in Nat
        BY <1>1, <3>1, <3>2, TotalIsNat
      <3>5. Total(o.parts, D) \in Int
        BY <1>1, <3>1, TotalAdds
      <3>6. QED
        BY <3>3, <3>4, <3>5
    <2>4. rule.cap = {} => f.amount \in 1..(f.seller + f.platform)
      <3>1. SUFFICES ASSUME rule.cap = {}
                     PROVE  f.amount \in 1..(f.seller + f.platform)
        OBVIOUS
      <3>2. o.seller + o.platform = Total(o.parts, D) /\ Total(o.parts, D) \in Nat
        BY <2>2, <3>1 DEF Offered, D
      <3>3. f.amount = Total(cut, D) /\ f.amount > 0
        BY <1>6, <2>1
      <3>4. QED
        BY <2>1, <2>3, <3>2, <3>3
    <2>5. Fine(q, f)
      BY <1>3, <1>4, <2>1, <2>2, <2>4 DEF Fine, D
    <2>6. \A i \in D : f.parts[i] <= left[i]
      BY <1>3, <2>1
    <2>7. QED
      BY <2>5, <2>6 DEF D
  <1>9. QED
    BY <1>7, <1>8

-----------------------------------------------------------------------------
(* All rules.                                                              *)

Taken(applied, i) == SumFunction([k \in DOMAIN applied |-> applied[k].parts[i]])

IsSequence(s) == \E U : s \in Seq(U)

\* What every turn finds and leaves: what was taken from a line and what is left make up its
\* price, and what was applied is fine.
Good(q, stack) ==
    /\ DOMAIN stack.left = DOMAIN q /\ \A i \in DOMAIN q : stack.left[i] \in Nat
    /\ IsSequence(stack.applied)
    /\ \A k \in DOMAIN stack.applied : Fine(q, stack.applied[k])
    /\ \A i \in DOMAIN q : stack.left[i] + Taken(stack.applied, i) = LinePrice(q[i])

\* What is in a sequence is the offer or was in the other one.
OneMore(more, applied, o) ==
    \A k \in DOMAIN more : more[k] = o \/ (k \in DOMAIN applied /\ more[k] = applied[k])

\* All offers applied take a natural part of a line.
NaturalParts(applied, i) == \A k \in DOMAIN applied : applied[k].parts[i] \in Nat

\* An offer appended to those applied.
LEMMA AppendIsOneMore ==
    ASSUME NEW applied, IsSequence(applied), NEW o, NEW more, more = Append(applied, o)
    PROVE  IsSequence(more) /\ OneMore(more, applied, o)
  <1>0. PICK offers : applied \in Seq(offers)
    BY DEF IsSequence
  <1> DEFINE U == offers \cup {o}
             n == Len(applied)
  <1>1. applied \in Seq(U) /\ o \in U
    <2>1. DOMAIN applied = 1..n /\ n \in Nat /\ \A k \in 1..n : applied[k] \in offers
      BY <1>0
    <2>2. QED
      BY <1>0, <2>1, SeqDef
  <1>2. DOMAIN applied = 1..n /\ n \in Nat
    BY <1>1
  <1> HIDE DEF U, n
  <1>3. n = Len(applied)
    BY DEF n
  <1>4. /\ more \in Seq(U) /\ Len(more) = n + 1
        /\ \A k \in 1..n : more[k] = applied[k]
        /\ more[n + 1] = o
    BY <1>1, <1>3, AppendProperties
  <1>5. DOMAIN more = 1..(n + 1)
    BY <1>4, <1>2
  <1>6. QED
    BY <1>2, <1>4, <1>5 DEF IsSequence, OneMore

\* One more offer adds its parts to what was taken.
LEMMA TakenGrows ==
    ASSUME NEW applied, IsSequence(applied), NEW o, NEW i,
           NaturalParts(applied, i), o.parts[i] \in Nat,
           NEW more, more = Append(applied, o)
    PROVE  Taken(more, i) = Taken(applied, i) + o.parts[i] /\ Taken(applied, i) \in Nat
  <1>0. PICK offers : applied \in Seq(offers)
    BY DEF IsSequence
  <1> DEFINE U == offers \cup {o}
             n == Len(applied)
             D == DOMAIN applied
             w == [k \in D |-> applied[k].parts[i]]
             v == [k \in DOMAIN more |-> more[k].parts[i]]
  <1>1. applied \in Seq(U) /\ o \in U
    <2>1. D = 1..n /\ n \in Nat /\ \A k \in 1..n : applied[k] \in offers
      BY <1>0
    <2>2. QED
      BY <1>0, <2>1, SeqDef
  <1>2. /\ more \in Seq(U) /\ Len(more) = n + 1 /\ n \in Nat
        /\ \A k \in 1..n : more[k] = applied[k]
        /\ more[n + 1] = o
    <2> HIDE DEF U
    <2>1. QED
      BY <1>1, AppendProperties
  <1>3. D = 1..n /\ DOMAIN more = 1..(n + 1)
    BY <1>1, <1>2
  <1>4. DOMAIN more = D \cup {n + 1} /\ n + 1 \notin D /\ IsFiniteSet(D) /\ IsFiniteSet(DOMAIN more)
    <2>1. IsFiniteSet(1..n)
      <3>1. 1 \in Int /\ n \in Int
        BY <1>2
      <3> HIDE DEF n
      <3>2. QED
        BY <3>1, FS_Interval
    <2>2. 1..(n + 1) = (1..n) \cup {n + 1} /\ n + 1 \notin 1..n
      BY <1>2
    <2> HIDE DEF D, n
    <2>3. DOMAIN more = D \cup {n + 1} /\ n + 1 \notin D /\ IsFiniteSet(D)
      BY <1>3, <2>1, <2>2
    <2>4. ASSUME NEW S, IsFiniteSet(S), NEW x, NEW all, all = S \cup {x}
          PROVE  IsFiniteSet(all)
      BY <2>4, FS_AddElement
    <2>5. QED
      BY <2>3, <2>4
  <1>5. /\ DOMAIN w = D /\ DOMAIN v = DOMAIN more
        /\ \A k \in D : w[k] \in Nat /\ v[k] = w[k]
        /\ v[n + 1] = o.parts[i]
    <2>1. DOMAIN w = D /\ DOMAIN v = DOMAIN more
      OBVIOUS
    <2>2. \A k \in D : w[k] = applied[k].parts[i] /\ w[k] \in Nat
      BY DEF NaturalParts
    <2>3. \A k \in D : v[k] = more[k].parts[i] /\ more[k] = applied[k]
      BY <1>2, <1>3, <1>4
    <2>4. v[n + 1] = more[n + 1].parts[i]
      BY <1>4
    <2> HIDE DEF w, v
    <2>5. QED
      BY <1>2, <2>1, <2>2, <2>3, <2>4
  <1>6. Taken(more, i) = SumFunction(v) /\ Taken(applied, i) = SumFunction(w)
    BY DEF Taken
  <1> HIDE DEF w, v, n, D, U
  <1>8. Taken(applied, i) = Total(w, D) /\ Taken(more, i) = Total(v, DOMAIN more)
    BY <1>4, <1>5, <1>6, SumFunctionIs
  <1>9. Total(v, DOMAIN more) = Total(w, D) + v[n + 1]
    <2>1. ASSUME NEW r, r \notin D, NEW all, all = D \cup {r}, \A k \in all : v[k] \in Int,
                 \A k \in D : w[k] = v[k]
          PROVE  Total(v, all) = Total(w, D) + v[r]
      BY <1>4, <2>1, TotalJoins
    <2>2. \A k \in DOMAIN more : v[k] \in Int
      BY <1>4, <1>5
    <2>3. QED
      BY <1>4, <1>5, <2>1, <2>2
  <1>10. Total(w, D) \in Nat
    BY <1>4, <1>5, TotalIsNat
  <1>11. QED
    BY <1>5, <1>8, <1>9, <1>10

\* Applying a fine offer of what is left.
LEMMA TakeKeeps ==
    ASSUME NEW q \in Quotes, NEW stack, Good(q, stack), NEW o, Fine(q, o),
           \A i \in DOMAIN q : o.parts[i] <= stack.left[i],
           NEW next, next = Take(stack, o)
    PROVE  Good(q, next)
  <1> DEFINE D == DOMAIN q
             more == Append(stack.applied, o)
  <1>1. next.applied = more /\ next.left = [i \in DOMAIN stack.left |-> stack.left[i] - o.parts[i]]
    BY DEF Take
  <1>2. /\ DOMAIN stack.left = D /\ \A i \in D : stack.left[i] \in Nat /\ o.parts[i] \in Nat
    BY DEF Good, Fine
  <1>3. DOMAIN next.left = D /\ \A i \in D : /\ next.left[i] = stack.left[i] - o.parts[i]
                                             /\ next.left[i] \in Nat
    BY <1>1, <1>2
  <1>4. IsSequence(stack.applied)
    BY DEF Good
  <1>5. \A k \in DOMAIN stack.applied : Fine(q, stack.applied[k])
    BY DEF Good
  <1>6. ASSUME NEW i \in D
        PROVE  Taken(more, i) = Taken(stack.applied, i) + o.parts[i] /\ Taken(stack.applied, i) \in Nat
    <2>1. NaturalParts(stack.applied, i)
      BY <1>5 DEF Fine, NaturalParts
    <2>2. o.parts[i] \in Nat
      BY <1>2
    <2>3. more = Append(stack.applied, o)
      OBVIOUS
    <2> HIDE DEF D, more
    <2>4. QED
      BY <1>4, <2>1, <2>2, <2>3, TakenGrows
  <1>7. IsSequence(more) /\ OneMore(more, stack.applied, o)
    <2>1. more = Append(stack.applied, o)
      OBVIOUS
    <2> HIDE DEF D, more
    <2>2. QED
      BY <1>4, <2>1, AppendIsOneMore
  <1>8. \A i \in D : next.left[i] + Taken(more, i) = LinePrice(q[i])
    <2>1. ASSUME NEW i \in D
          PROVE  next.left[i] + Taken(more, i) = LinePrice(q[i])
      <3>1. stack.left[i] + Taken(stack.applied, i) = LinePrice(q[i])
        BY DEF Good
      <3>2. /\ Taken(more, i) = Taken(stack.applied, i) + o.parts[i]
            /\ Taken(stack.applied, i) \in Nat /\ stack.left[i] \in Nat /\ o.parts[i] \in Nat
            /\ next.left[i] = stack.left[i] - o.parts[i]
        BY <1>2, <1>3, <1>6
      <3> HIDE DEF more
      <3>3. QED
        BY <3>1, <3>2
    <2>2. QED
      BY <2>1
  <1> HIDE DEF more
  <1>9. IsSequence(more) /\ \A k \in DOMAIN more : Fine(q, more[k])
    BY <1>5, <1>7 DEF OneMore
  <1>10. QED
    BY <1>1, <1>3, <1>8, <1>9 DEF Good, D

LEMMA TurnKeeps ==
    ASSUME NEW q \in Quotes, NEW rule, IsRule(rule), NEW stack, Good(q, stack)
    PROVE  Good(q, Turn(q, stack, rule))
  <1> DEFINE offers == IF Excluded(stack, rule) THEN {}
                       ELSE {Fitted(o, stack.left) : o \in Evaluated(q, rule)}
             next == Turn(q, stack, rule)
             taken == CHOOSE o \in offers : TRUE
  <1>1. next = IF \E o \in offers : o.amount > 0 THEN Take(stack, taken) ELSE stack
    BY DEF Turn
  <1>2. CASE ~ \E o \in offers : o.amount > 0
    BY <1>1, <1>2
  <1>3. CASE \E o \in offers : o.amount > 0
    <2>1. \A o, p \in offers : o = p
      BY DEF Evaluated
    <2>2. taken \in offers
      BY <1>3
    <2> HIDE DEF taken
    <2>3. taken.amount > 0
      BY <1>3, <2>1, <2>2
    <2>4. PICK o \in Evaluated(q, rule) : taken = Fitted(o, stack.left)
      BY <2>2
    <2>5. Offered(q, rule, o)
      BY <2>4, EvaluatedFacts
    <2>6. DOMAIN stack.left = DOMAIN q /\ \A i \in DOMAIN q : stack.left[i] \in Nat
      BY DEF Good
    <2>7. Fine(q, taken) /\ \A i \in DOMAIN q : taken.parts[i] <= stack.left[i]
      BY <2>3, <2>4, <2>5, <2>6, FittedFacts
    <2>8. next = Take(stack, taken)
      BY <1>1, <1>3
    <2>9. QED
      BY <2>7, <2>8, TakeKeeps
  <1>4. QED
    BY <1>2, <1>3

\* Rules of a campaign come one before the other.
LEMMA BeforeOrders ==
    ASSUME NEW rules \in Campaigns, NEW k \in DOMAIN rules, NEW l \in DOMAIN rules,
           NEW m \in DOMAIN rules
    PROVE  /\ ~Before(rules, k, k)
           /\ k # l => Before(rules, k, l) \/ Before(rules, l, k)
           /\ Before(rules, k, l) /\ Before(rules, l, m) => Before(rules, k, m)
  <1>1. /\ k \in Int /\ l \in Int /\ m \in Int
        /\ rules[k].priority \in Int /\ rules[l].priority \in Int /\ rules[m].priority \in Int
        /\ rules[k].value \in Int /\ rules[l].value \in Int /\ rules[m].value \in Int
    BY PromotionAssumption
  <1>2. QED
    BY <1>1 DEF Before

\* Of some rules one comes last.
LEMMA LastIs ==
    ASSUME NEW rules \in Campaigns, NEW s \in SUBSET DOMAIN rules, s # {}
    PROVE  /\ LastOf(rules, s) \in s
           /\ \A l \in s \ {LastOf(rules, s)} : Before(rules, l, LastOf(rules, s))
  <1> DEFINE before == [t \in s |-> {l \in s : Before(rules, l, t)}]
  <1>1. IsFiniteSet(s)
    BY CampaignFacts, FS_Subset
  <1>2. \A k \in s : k \notin before[k]
    BY BeforeOrders
  <1>3. \A k, l \in s : k # l => k \in before[l] \/ l \in before[k]
    BY BeforeOrders
  <1>4. ASSUME NEW k \in s, NEW l \in s, k \in before[l], NEW m \in before[k]
        PROVE  m \in before[l]
    BY <1>4, BeforeOrders
  <1>5. \A k, l \in s : k \in before[l] => before[k] \subseteq before[l]
    <2> HIDE DEF before
    <2>1. QED
      BY <1>4
  <1>6. PICK k \in s : s \ {k} \subseteq before[k]
    <2> HIDE DEF before
    <2>1. QED
      BY <1>1, <1>2, <1>3, <1>5, FirstInOrder
  <1>7. \A l \in s \ {k} : Before(rules, l, k)
    BY <1>6
  <1>8. QED
    BY <1>7 DEF LastOf

\* The last of some rules is the last of fewer of them.
LEMMA LastStays ==
    ASSUME NEW rules \in Campaigns, NEW T \in SUBSET DOMAIN rules, NEW s \in SUBSET T,
           LastOf(rules, T) \in s
    PROVE  LastOf(rules, s) = LastOf(rules, T)
  <1> DEFINE x == LastOf(rules, T)
             y == LastOf(rules, s)
  <1>1. y \in s /\ \A l \in s \ {y} : Before(rules, l, y)
    BY LastIs
  <1>2. x \in s /\ \A l \in T \ {x} : Before(rules, l, x)
    BY LastIs
  <1>3. x \in DOMAIN rules /\ y \in DOMAIN rules
    BY <1>1, <1>2
  <1> HIDE DEF x, y
  <1>4. ASSUME x # y
        PROVE  FALSE
    <2>1. Before(rules, x, y) /\ Before(rules, y, x)
      BY <1>1, <1>2, <1>4
    <2>2. QED
      BY <1>3, <2>1, BeforeOrders
  <1>5. QED
    BY <1>4 DEF x, y

\* What g is at s when it gives each set of rules what their turns make of the quote.
Folded(g, q, rules, s) ==
    IF s = {} THEN Untouched(q)
    ELSE Turn(q, g[s \ {LastOf(rules, s)}], rules[LastOf(rules, s)])

IsFold(g, q, rules, S) == g = [s \in SUBSET S |-> Folded(g, q, rules, s)]

LEMMA FoldAt ==
    ASSUME NEW q, NEW rules, NEW S, NEW g, IsFold(g, q, rules, S)
    PROVE  \A s \in SUBSET S : g[s] = Folded(g, q, rules, s)
  <1> DEFINE h == [s \in SUBSET S |-> Folded(g, q, rules, s)]
  <1>1. g = h
    BY DEF IsFold
  <1>2. \A s \in SUBSET S : h[s] = Folded(g, q, rules, s)
    OBVIOUS
  <1> HIDE DEF h
  <1>3. QED
    BY <1>1, <1>2

\* One rule more, the last of all.
LEMMA FoldGrows ==
    ASSUME NEW q, NEW rules \in Campaigns, NEW T \in SUBSET DOMAIN rules, T # {},
           NEW g, IsFold(g, q, rules, T \ {LastOf(rules, T)})
    PROVE  \E h : IsFold(h, q, rules, T)
  <1> DEFINE x == LastOf(rules, T)
             U == T \ {x}
             h == [s \in SUBSET T |-> IF x \in s THEN Turn(q, g[s \ {x}], rules[x]) ELSE g[s]]
             f == [s \in SUBSET T |-> Folded(h, q, rules, s)]
  <1>1. x \in T
    BY LastIs
  <1>2. \A s \in SUBSET U : g[s] = Folded(g, q, rules, s)
    BY FoldAt
  <1>3. \A s \in SUBSET T : x \in s => LastOf(rules, s) = x
    BY LastStays
  <1>4. \A s \in SUBSET T : h[s] = IF x \in s THEN Turn(q, g[s \ {x}], rules[x]) ELSE g[s]
    OBVIOUS
  <1>5. \A s \in SUBSET U : s \in SUBSET T /\ x \notin s
    OBVIOUS
  <1>6. \A s \in SUBSET T : s # {} => LastOf(rules, s) \in s
    BY LastIs
  <1>7. DOMAIN h = SUBSET T /\ DOMAIN f = SUBSET T
    OBVIOUS
  <1>8. \A s \in SUBSET T : f[s] = Folded(h, q, rules, s)
    OBVIOUS
  <1>9. IsFold(h, q, rules, T) <=> h = f
    BY DEF IsFold
  <1>10. \A s \in SUBSET T : x \notin s => s \in SUBSET U
    OBVIOUS
  <1>11. \A s \in SUBSET T : s \ {x} \in SUBSET U
    OBVIOUS
  <1>12. h = [s \in SUBSET T |-> h[s]] /\ f = [s \in SUBSET T |-> f[s]]
    OBVIOUS
  <1> HIDE DEF h, f, U, x
  <1>13. ASSUME NEW s \in SUBSET T
         PROVE  h[s] = Folded(h, q, rules, s)
    <2>1. CASE x \in s
      <3>1. h[s] = Turn(q, g[s \ {x}], rules[x]) /\ s # {} /\ LastOf(rules, s) = x
        BY <1>3, <1>4, <2>1
      <3>2. h[s \ {x}] = g[s \ {x}]
        BY <1>4, <1>5, <1>11
      <3>3. QED
        BY <3>1, <3>2 DEF Folded
    <2>2. CASE x \notin s /\ s = {}
      <3>1. h[s] = g[s] /\ g[s] = Folded(g, q, rules, s)
        BY <1>2, <1>4, <1>10, <2>2
      <3>2. QED
        BY <2>2, <3>1 DEF Folded
    <2>3. CASE x \notin s /\ s # {}
      <3>1. h[s] = g[s] /\ g[s] = Folded(g, q, rules, s)
        BY <1>2, <1>4, <1>10, <2>3
      <3> DEFINE rest == s \ {LastOf(rules, s)}
      <3>2. rest \in SUBSET T /\ x \notin rest
        BY <2>3
      <3>3. h[rest] = g[rest]
        <4> HIDE DEF rest
        <4>1. QED
          BY <1>4, <3>2
      <3>4. Folded(g, q, rules, s) = Folded(h, q, rules, s)
        BY <2>3, <3>3 DEF Folded
      <3>5. QED
        BY <3>1, <3>4
    <2>4. QED
      BY <2>1, <2>2, <2>3
  <1>14. h = f
    BY <1>8, <1>12, <1>13
  <1>15. QED
    BY <1>9, <1>14

LEMMA FoldExists ==
    ASSUME NEW q, NEW rules \in Campaigns
    PROVE  \E g : IsFold(g, q, rules, DOMAIN rules)
  <1> DEFINE D == DOMAIN rules
             F == {T \in SUBSET D : ~\E g : IsFold(g, q, rules, T)}
  <1>1. CASE F = {}
    <2>1. D \notin F
      BY <1>1
    <2>2. QED
      BY <2>1
  <1>2. ASSUME F # {}
        PROVE  FALSE
    <2>1. IsFiniteSet(D) /\ F \subseteq SUBSET D
      BY CampaignFacts
    <2>2. PICK T \in F : \A s \in F : s \subseteq T => s = T
      <3> HIDE DEF F, D
      <3>1. QED
        BY <1>2, <2>1, MinimalSet
    <2>3. T \in SUBSET D /\ ~\E g : IsFold(g, q, rules, T)
      OBVIOUS
    <2>4. CASE T = {}
      <3> DEFINE g == [s \in SUBSET T |-> Untouched(q)]
                 f == [s \in SUBSET T |-> Folded(g, q, rules, s)]
      <3>1. \A s \in SUBSET T : s = {}
        BY <2>4
      <3>2. \A s \in SUBSET T : Folded(g, q, rules, s) = Untouched(q)
        BY <3>1 DEF Folded
      <3>3. g = f
        BY <3>2
      <3>4. QED
        BY <2>3, <3>3 DEF IsFold
    <2>5. CASE T # {}
      <3> DEFINE x == LastOf(rules, T)
                 U == T \ {x}
      <3>1. x \in T
        BY <2>3, <2>5, LastIs
      <3>2. U \in SUBSET D /\ U \subseteq T /\ U # T
        BY <2>3, <3>1
      <3>3. U \notin F
        BY <2>2, <3>2
      <3>4. PICK g : IsFold(g, q, rules, U)
        BY <3>2, <3>3
      <3>5. \E h : IsFold(h, q, rules, T)
        BY <2>3, <2>5, <3>4, FoldGrows
      <3>6. QED
        BY <2>3, <3>5
    <2>6. QED
      BY <2>4, <2>5
  <1>3. QED
    BY <1>1, <1>2

\* Every quote is fine before a rule has its turn.
LEMMA UntouchedIsGood ==
    ASSUME NEW q \in Quotes
    PROVE  Good(q, Untouched(q))
  <1> DEFINE none == Untouched(q).applied
             price == Untouched(q).left
  <1>1. none = <<>> /\ price = [i \in DOMAIN q |-> LinePrice(q[i])]
    BY DEF Untouched
  <1>2. IsSequence(none) /\ DOMAIN none = {}
    <2>1. <<>> \in Seq({}) /\ DOMAIN <<>> = {}
      OBVIOUS
    <2>2. QED
      BY <1>1, <2>1 DEF IsSequence
  <1>3. \A i \in DOMAIN q : LinePrice(q[i]) \in Nat
    BY QuoteFacts
  <1>4. ASSUME NEW i
        PROVE  Taken(none, i) = 0
    <2> DEFINE w == [k \in DOMAIN none |-> none[k].parts[i]]
    <2>1. DOMAIN w = {} /\ IsFiniteSet({})
      BY <1>2, FS_EmptySet
    <2>2. Taken(none, i) = SumFunction(w)
      BY DEF Taken
    <2> HIDE DEF w
    <2>3. SumFunction(w) = Total(w, {})
      BY <2>1, SumFunctionIs
    <2>4. QED
      BY <2>1, <2>2, <2>3, TotalOfNothing
  <1> HIDE DEF none
  <1>5. \A i \in DOMAIN q : price[i] = LinePrice(q[i]) /\ DOMAIN price = DOMAIN q
    BY <1>1
  <1>6. DOMAIN price = DOMAIN q
    BY <1>1
  <1> HIDE DEF price
  <1>7. QED
    BY <1>2, <1>3, <1>4, <1>5, <1>6 DEF Good, none, price

\* And after any of them had theirs.
LEMMA StackedIsGood ==
    ASSUME NEW q \in Quotes, NEW rules \in Campaigns
    PROVE  Good(q, Stacked(q, rules))
  <1> DEFINE D == DOMAIN rules
             P(g) == g = [s \in SUBSET D |->
                             IF s = {} THEN Untouched(q)
                             ELSE LET x == LastOf(rules, s)
                                  IN  Turn(q, g[s \ {x}], rules[x])]
             h == CHOOSE g : P(g)
  <1>1. Stacked(q, rules) = h[D]
    BY Zenon DEF Stacked, MapThenFoldSet
  <1>2. ASSUME NEW g
        PROVE  P(g) <=> IsFold(g, q, rules, D)
    BY DEF IsFold, Folded
  <1>3. P(h)
    <2>1. \E g : P(g)
      <3> HIDE DEF P
      <3>1. QED
        BY <1>2, FoldExists
    <2> HIDE DEF P
    <2>2. QED
      BY <2>1, Zenon
  <1>4. IsFold(h, q, rules, D)
    <2> HIDE DEF P, h
    <2>1. QED
      BY <1>2, <1>3
  <1> HIDE DEF P, h
  <1>5. \A s \in SUBSET D : h[s] = Folded(h, q, rules, s)
    BY <1>4, FoldAt
  <1> DEFINE F == {s \in SUBSET D : ~Good(q, h[s])}
  <1>6. CASE F = {}
    <2>1. D \notin F /\ D \in SUBSET D
      BY <1>6
    <2>2. QED
      BY <1>1, <2>1
  <1>7. ASSUME F # {}
        PROVE  FALSE
    <2>1. IsFiniteSet(D) /\ F \subseteq SUBSET D
      BY CampaignFacts
    <2>2. PICK T \in F : \A s \in F : s \subseteq T => s = T
      <3> HIDE DEF F, D
      <3>1. QED
        BY <1>7, <2>1, MinimalSet
    <2>3. T \in SUBSET D /\ ~Good(q, h[T])
      OBVIOUS
    <2>4. T # {}
      BY <1>5, <2>3, UntouchedIsGood DEF Folded
    <2> DEFINE x == LastOf(rules, T)
               U == T \ {x}
    <2>5. x \in T
      BY <2>3, <2>4, LastIs
    <2>6. U \in SUBSET D /\ U \subseteq T /\ U # T
      BY <2>3, <2>5
    <2>7. Good(q, h[U])
      BY <2>2, <2>6
    <2>8. h[T] = Turn(q, h[U], rules[x])
      BY <1>5, <2>3, <2>4 DEF Folded
    <2>9. x \in DOMAIN rules
      BY <2>3, <2>5
    <2> HIDE DEF F, x, U, D
    <2>10. IsRule(rules[x])
      BY <2>9, CampaignFacts
    <2>11. QED
      BY <2>3, <2>7, <2>8, <2>10, TurnKeeps
  <1>8. QED
    BY <1>6, <1>7

\* What the rules took from a line is natural.
LEMMA TakenIsNat ==
    ASSUME NEW q \in Quotes, NEW stack, Good(q, stack), NEW i \in DOMAIN q
    PROVE  Taken(stack.applied, i) \in Nat
  <1> DEFINE D == DOMAIN stack.applied
             w == [k \in D |-> stack.applied[k].parts[i]]
  <1>1. IsFiniteSet(D)
    <2>1. PICK U : stack.applied \in Seq(U)
      BY DEF Good, IsSequence
    <2>2. D = 1..Len(stack.applied) /\ Len(stack.applied) \in Int /\ 1 \in Int
      BY <2>1
    <2> HIDE DEF D
    <2>3. QED
      BY <2>2, FS_Interval
  <1>2. \A k \in D : w[k] \in Nat
    BY DEF Good, Fine
  <1>3. Taken(stack.applied, i) = SumFunction(w)
    BY DEF Taken
  <1>4. DOMAIN w = D
    OBVIOUS
  <1> HIDE DEF w, D
  <1>5. SumFunction(w) = Total(w, D)
    BY <1>1, <1>4, SumFunctionIs
  <1>6. QED
    BY <1>1, <1>2, <1>3, <1>5, TotalIsNat

-----------------------------------------------------------------------------
(* The lines rules share.                                                  *)

\* For every quote and every campaign, however many rules stack: no line costs less than
\* nothing, what the rules took from a line and what is left make up its price, a rule's
\* amount is what its lines gave unless its cap says less, and those who fund a rule without
\* a cap pay no less than its amount (PromotionsShareLines: resolveStackedPromotions).
THEOREM PromotionsAreShared == PromotionsShareLines
  <1> SUFFICES ASSUME NEW q \in Quotes, NEW rules \in Campaigns
               PROVE  RulesShareLines(q, Stacked(q, rules))
    BY DEF PromotionsShareLines
  <1> DEFINE result == Stacked(q, rules)
             applied == result.applied
  <1>1. Good(q, result)
    BY StackedIsGood
  <1> HIDE DEF result
  <1>2. ASSUME NEW i \in DOMAIN q
        PROVE  /\ result.left[i] \in 0..LinePrice(q[i])
               /\ result.left[i] + Taken(applied, i) = LinePrice(q[i])
    <2>1. result.left[i] \in Nat /\ result.left[i] + Taken(applied, i) = LinePrice(q[i])
      BY <1>1 DEF Good
    <2>2. Taken(applied, i) \in Nat
      BY <1>1, TakenIsNat
    <2>3. LinePrice(q[i]) \in Nat
      BY QuoteFacts
    <2> HIDE DEF applied
    <2>4. QED
      BY <2>1, <2>2, <2>3
  <1>3. \A k \in DOMAIN applied : Fine(q, applied[k])
    BY <1>1 DEF Good
  <1>4. QED
    BY <1>2, <1>3 DEF RulesShareLines, Taken, Fine, result

-----------------------------------------------------------------------------
(* What the runs of Checkout check.                                        *)

\* Whenever a quote is made, the discounts of the lines make up a coupon of the platform, and a
\* seller's coupon or the proportion of it that is due to his lines, as the basket ends with one
\* of them or not; what groups, lines and order say agrees (DiscountsAddUp: calculateCheckout).
THEOREM DiscountsAlwaysAddUp == CheckoutSpec => []DiscountsAddUp
  <1>1. DiscountsAddUp
    BY PricesAgree DEF DiscountsAddUp
  <1>2. QED
    BY <1>1, PTL

\* Whenever a quote is made, no line gives more than its price to the rules stacked on it,
\* and the rules say what their lines gave (PromotionsFit: resolveStackedPromotions).
THEOREM PromotionsAlwaysFit == CheckoutSpec => []PromotionsFit
  <1>1. PromotionsFit
    BY PromotionsAreShared DEF PromotionsFit
  <1>2. QED
    BY <1>1, PTL
=============================================================================
