----------------------------- MODULE MCCheckout -----------------------------
(* Instances of Prices, and so of Checkout, Pricing and Promotions, for    *)
(* TLC.                                                                    *)
EXTENDS Prices, TLC

CONSTANTS r1, r2, r3, r4, mine, yours

\* Two requests that buy, give the coupon back or edit lines, one of the other kinds, and one
\* that was delayed.
TwoAndOne ==
    [r \in Requests |-> IF r \in {r1, r2} THEN {"check out", "release", "add", "change"} ELSE
        {"clear", "coupon", "merge", "abandon", "recover",
         "reserve", "release", "journal", "reverse"}]

TwoTenders == {<<"CUSTOMER_WALLET", TRUE>>, <<"COD", FALSE>>}

\* Each request is served once, and the first two and the keys are interchangeable.
Interchangeable == Permutations({r1, r2}) \cup Permutations(Keys)

\* Baskets of up to four lines, of two sellers, one with tax.
LinesOf(Gross) == {[gross |-> g, seller |-> mine, rate |-> 1500] : g \in Gross}
                \cup {[gross |-> g, seller |-> yours, rate |-> 0] : g \in Gross}

SmallBaskets == UNION {[1..n -> LinesOf({1, 2, 5})] : n \in 1..3} \cup [1..4 -> LinesOf({1, 5})]

SmallRules == {[kind |-> "FIXED", value |-> v, cap |-> 0, seller |-> s, share |-> 50] :
                  v \in {2, 3}, s \in {Anyone, mine}}
              \cup {[kind |-> "PERCENTAGE", value |-> 30, cap |-> c, seller |-> s, share |-> 50] :
                  c \in {0, 1}, s \in {Anyone, mine}}

\* Quotes of up to three lines, of two products in one category.
QuoteLines(Quantities) ==
    {[unit |-> u, quantity |-> n, seller |-> s, product |-> s, category |-> "all", brand |-> "none"] :
        u \in {1, 4}, n \in Quantities, s \in {mine, yours}}

SmallQuotes == [1..2 -> QuoteLines({1, 2})] \cup [1..3 -> QuoteLines({1})]

\* A rule of the platform for the whole quote.
PlainRule == [kind |-> "PERCENTAGE", scope |-> "CART_SUBTOTAL", value |-> 9900, cap |-> {},
              minimum |-> 0, units |-> 1, buy |-> 1, get |-> 1, percent |-> 10000,
              seller |-> AnySeller, targets |-> {}, share |-> 0, priority |-> 1,
              stackable |-> TRUE, exclusion |-> "STACKABLE"]

AllOfIt == {[type |-> "CATEGORY", id |-> "all"]}
OneProduct == {[type |-> "PRODUCT", id |-> mine]}

SomeRules ==
    {PlainRule,
     [PlainRule EXCEPT !.value = 15000, !.cap = {2}],
     [PlainRule EXCEPT !.kind = "FIXED_AMOUNT", !.value = 3, !.seller = mine, !.share = 10000],
     [PlainRule EXCEPT !.kind = "FIXED_AMOUNT", !.value = 5, !.scope = "SPECIFIC_PRODUCTS",
         !.targets = OneProduct, !.exclusion = "EXCLUSIVE_PRODUCT", !.priority = 2],
     [PlainRule EXCEPT !.value = 5000, !.scope = "SPECIFIC_CATEGORIES", !.targets = AllOfIt,
         !.exclusion = "EXCLUSIVE_CATEGORY", !.share = 5000, !.units = 2],
     [PlainRule EXCEPT !.kind = "BUY_X_GET_Y", !.percent = 7500, !.minimum = 3],
     [PlainRule EXCEPT !.kind = "FREE_SHIPPING", !.scope = "SHIPPING_FEE"],
     [PlainRule EXCEPT !.value = 3000, !.exclusion = "EXCLUSIVE_SITEWIDE", !.stackable = FALSE]}

Two == [1..2 -> SomeRules]

SmallCampaigns == Two \cup {<<PlainRule>> \o c : c \in Two}
=============================================================================
