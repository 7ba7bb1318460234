------------------------------- MODULE Prices -------------------------------
(***************************************************************************)
(* Checkout together with what it charges: the properties of Pricing and   *)
(* Promotions are about every basket, coupon, quote and campaign, and say  *)
(* nothing of the state.  They are stated of the states in which a quote   *)
(* is made, before any request has begun.                                  *)
(***************************************************************************)
EXTENDS Checkout, Pricing, Promotions

\* Prices are a pure function of what was read, and are compared before the first request.
Quoting == Answered = {} /\ day = 0 /\ \A r \in Requests \ Delayed : pc[r] = "idle"

\* Whatever rules stack on a quote, no line gives more than its price and the rules say what
\* their lines gave (PromotionsShareLines).
PromotionsFit == Quoting => PromotionsShareLines

\* Over all baskets and coupons of the instance: the discounts of the lines make up a coupon
\* of the platform, and a seller's coupon when the basket ends with a line of that seller.  On
\* any other basket his lines only give the part of it that is their proportion of the basket,
\* but for roundings.  What groups, lines and order say always agrees (AmountsAgree).
DiscountsAddUp == Quoting => AmountsAgree
=============================================================================
