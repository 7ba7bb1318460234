------------------------------ MODULE Pricing ------------------------------
(***************************************************************************)
(* What ServerCheckoutCalculationService makes of a basket and a coupon:   *)
(* the discount spread over the lines, the tax of each line (TaxService),  *)
(* and the amounts of the sellers' groups and of the order.  It is a pure  *)
(* function of what it reads; amounts are integers, in poisha.             *)
(*                                                                         *)
(* The code divides in floating point.  The quotients it rounds are exact  *)
(* here, as they are for amounts below 2^53.  A line is what its variant   *)
(* costs times its quantity, and is not free.                              *)
(***************************************************************************)
EXTENDS Integers, Sequences, FiniteSetsExt

CONSTANTS
    Baskets,  \* sequences of lines, each with its gross, seller and tax rate
    Rules,    \* coupons: kind, value, cap, the seller who gives it and his share
    Anyone,   \* the seller of a coupon of the platform
    Fee       \* what a seller's parcel costs to ship

CommissionBps == 500

ASSUME PricingAssumption ==
    /\ \A b \in Baskets :
          /\ Len(b) \in Nat \ {0} /\ DOMAIN b = 1..Len(b)
          /\ \A i \in DOMAIN b :
                b[i].gross \in Nat \ {0} /\ b[i].rate \in Nat /\ b[i].seller # Anyone
    /\ \A c \in Rules : c.kind \in {"PERCENTAGE", "FIXED"} /\ c.value \in Nat
                           /\ c.cap \in Nat /\ c.share \in Nat
    /\ Fee \in Nat

AtLeastZero(n) == IF n > 0 THEN n ELSE 0

Subtotal(b) == SumFunction([i \in DOMAIN b |-> b[i].gross])

\* Math.round of a quotient, and roundHalfUp.
Rounded(n, d) == (2 * n + d) \div (2 * d)

\* evaluateCoupon.  Without a cap, cap is 0.
CouponAmount(c, b) ==
    LET full == IF c.kind = "PERCENTAGE" THEN Rounded(Subtotal(b) * c.value, 100) ELSE c.value
    IN  IF c.cap # 0 /\ c.cap < full THEN c.cap ELSE full

Eligible(b, c) == {i \in DOMAIN b : c.seller \in {Anyone, b[i].seller}}

Proportion(b, c, i) == Rounded(CouponAmount(c, b) * b[i].gross, Subtotal(b))

\* Variant: the last line gets its proportion.
WithoutRemainder(b, c) ==
    [i \in DOMAIN b |-> IF i \in Eligible(b, c) THEN Proportion(b, c, i) ELSE 0]

\* Every eligible line gets its proportion of the subtotal of all; the last line of the
\* basket, if it is eligible, gets what is left.
LineDiscounts(b, c) ==
    LET given == SumFunction([i \in Eligible(b, c) \ {Len(b)} |-> Proportion(b, c, i)])
    IN  [i \in DOMAIN b |-> CASE i \notin Eligible(b, c) -> 0
                              [] i \in Eligible(b, c) /\ i = Len(b) -> CouponAmount(c, b) - given
                              [] OTHER -> Proportion(b, c, i)]

SellerPart(discount, c) == Rounded(discount * c.share, 100)

\* A line, discounted by d and taxed.
Net(line, d) == AtLeastZero(line.gross - d)

Tax(line, d) == Rounded(Net(line, d) * line.rate, 10000)

LineTotal(line, d) == Net(line, d) + Tax(line, d)

\* The group of seller s, with line discounts d.
GroupOf(b, d, c, s) ==
    LET own == {i \in DOMAIN b : b[i].seller = s}
        gross == SumFunction([i \in own |-> b[i].gross])
        discount == SumFunction([i \in own |-> d[i]])
        tax == SumFunction([i \in own |-> Tax(b[i], d[i])])
        total == gross - discount + Fee + tax
        commission == (gross * CommissionBps) \div 10000
    IN  [discount |-> discount,
         byseller |-> SumFunction([i \in own |-> SellerPart(d[i], c)]),
         total |-> total, commission |-> commission, payout |-> total - commission]

Sellers(b) == {b[i].seller : i \in DOMAIN b}

Groups(b, d, c) == [s \in Sellers(b) |-> GroupOf(b, d, c, s)]

\* The order, from its subtotal and its groups' discounts, and its lines' taxes.
OrderTotal(b, d, c) ==
    Subtotal(b) - SumFunction([s \in Sellers(b) |-> Groups(b, d, c)[s].discount])
        + Fee * Cardinality(Sellers(b)) + SumFunction([i \in DOMAIN b |-> Tax(b[i], d[i])])

-----------------------------------------------------------------------------
(* Properties                                                              *)

\* Twice the distance of two products, and the bound roundings put on it.
Within(x, y, bound) == 2 * (x - y) <= bound /\ 2 * (y - x) <= bound

Given(d) == SumFunction(d)

\* A coupon of the platform: the lines' discounts add up to it, each is within half a
\* poisha of the line's proportion but the last, which carries the roundings of the others.
SpreadEvenly(b, c) ==
    LET d == LineDiscounts(b, c)
        exact(i) == CouponAmount(c, b) * b[i].gross
    IN  /\ Given(d) = CouponAmount(c, b)
        /\ \A i \in DOMAIN b :
              Within(d[i] * Subtotal(b), exact(i),
                     Subtotal(b) * IF i = Len(b) THEN Len(b) - 1 ELSE 1)

\* A seller's coupon gives all it is worth when the basket ends with a line of that
\* seller, and his lines' proportion of it when it does not.
SellersCoupon(b, c) ==
    LET d == LineDiscounts(b, c)
        own == SumFunction([i \in Eligible(b, c) |-> b[i].gross])
    IN  IF Len(b) \in Eligible(b, c) THEN Given(d) = CouponAmount(c, b)
        ELSE Within(Given(d) * Subtotal(b), CouponAmount(c, b) * own,
                    Subtotal(b) * Cardinality(Eligible(b, c)))

\* What the groups and the lines say of the same order: the groups' totals, payouts and
\* commissions make the order's total; so do the lines' totals with the shipping but for
\* what discounts exceed the price of a line; the sellers' part of the discount is the
\* coupon's share but for the roundings.
BooksAgree(b, c) ==
    LET d == LineDiscounts(b, c)
        groups == Groups(b, d, c)
        excess == SumFunction([i \in DOMAIN b |-> AtLeastZero(d[i] - b[i].gross)])
        lines == SumFunction([i \in DOMAIN b |-> LineTotal(b[i], d[i])])
        due == SumFunction([s \in Sellers(b) |-> groups[s].payout + groups[s].commission])
        byseller == SumFunction([s \in Sellers(b) |-> groups[s].byseller])
    IN  /\ OrderTotal(b, d, c) = due
        /\ OrderTotal(b, d, c) = lines + Fee * Cardinality(Sellers(b)) - excess
        /\ c.seller = Anyone /\ CouponAmount(c, b) <= Subtotal(b) => 2 * excess <= Len(b) - 1
        /\ Within(100 * byseller, Given(d) * c.share, 100 * Len(b))

\* The customer, each seller and the platform read different sums of one calculation:
\* they agree to the poisha, whatever the order of the lines and the roundings.
AmountsAgree ==
    \A b \in Baskets, c \in Rules :
        /\ IF c.seller = Anyone THEN SpreadEvenly(b, c) ELSE SellersCoupon(b, c)
        /\ BooksAgree(b, c)
=============================================================================
