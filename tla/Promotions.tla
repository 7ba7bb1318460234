---------------------------- MODULE Promotions -----------------------------
(***************************************************************************)
(* How promotions stack on a quote: evaluateDiscountRule says what one     *)
(* rule gives and on which lines, resolveStackedPromotions lets the rules  *)
(* take turns, the most important first.  It is a pure function of the     *)
(* lines and the rules it read; amounts are in poisha, percentages and     *)
(* values in hundredths, as the code scales them.                          *)
(*                                                                         *)
(* A rule that is not active, out of its dates or meant for other buyers   *)
(* is never applied; campaigns are of the others.  No line is free.        *)
(***************************************************************************)
EXTENDS Integers, Sequences, FiniteSetsExt

CONSTANTS
    Quotes,     \* sequences of lines: unit price, quantity, seller, product, category, brand
    Campaigns,  \* sequences of rules, in the order they were fetched
    AnySeller,  \* the seller of a rule of the platform
    Freight     \* the shipping fee of the quote

ASSUME PromotionAssumption ==
    /\ \A q \in Quotes :
          /\ Len(q) \in Nat \ {0} /\ DOMAIN q = 1..Len(q)
          /\ \A i \in DOMAIN q :
                q[i].unit \in Nat \ {0} /\ q[i].quantity \in Nat \ {0} /\ q[i].seller # AnySeller
    /\ \A c \in Campaigns :
          /\ Len(c) \in Nat /\ DOMAIN c = 1..Len(c)
          /\ \A k \in DOMAIN c :
                /\ c[k].kind \in {"PERCENTAGE", "FIXED_AMOUNT", "BUY_X_GET_Y", "FREE_SHIPPING"}
                /\ c[k].priority \in Int /\ c[k].value \in Nat /\ c[k].percent \in Nat
                /\ c[k].buy \in Nat \ {0} /\ c[k].get \in Nat \ {0} /\ c[k].share \in Nat
                /\ c[k].cap \subseteq Nat /\ \A m, n \in c[k].cap : m = n
    /\ Freight \in Nat

LinePrice(line) == line.unit * line.quantity

-----------------------------------------------------------------------------
(* One rule: evaluateDiscountRule                                          *)

OfShipping(rule) == rule.kind = "FREE_SHIPPING" \/ rule.scope = "SHIPPING_FEE"

\* What a scope compares with the targets of a rule.
Named(line, scope) == CASE scope = "SPECIFIC_PRODUCTS"   -> line.product
                        [] scope = "SPECIFIC_CATEGORIES" -> line.category
                        [] scope = "SPECIFIC_BRANDS"     -> line.brand

\* The lines a rule is about; targets are compared by name, whatever their type.
Meant(q, rule) ==
    {i \in DOMAIN q :
        /\ rule.seller \in {AnySeller, q[i].seller}
        /\ (rule.scope \in {"SPECIFIC_PRODUCTS", "SPECIFIC_CATEGORIES", "SPECIFIC_BRANDS"}
              /\ rule.targets # {})
           => \E t \in rule.targets : t.id = Named(q[i], rule.scope)}

WorthOf(q, lines) == SumFunction([i \in lines |-> LinePrice(q[i])])

UnitsOf(q, lines) == SumFunction([i \in lines |-> q[i].quantity])

Reached(q, rule) ==
    /\ Meant(q, rule) # {} \/ rule.scope = "SHIPPING_FEE"
    /\ WorthOf(q, Meant(q, rule)) >= rule.minimum
    /\ UnitsOf(q, Meant(q, rule)) >= rule.units

\* Each line its part, rounded down, and the last one what is left of the total.
Spread(lines, total, part) ==
    LET given == SumFunction([i \in lines \ {Max(lines)} |-> part[i]])
    IN  [i \in lines |-> IF i = Max(lines) THEN total - given ELSE part[i]]

\* Units that come with those bought, the cheapest of the quote first.
FreeUnits(q, lines, rule) ==
    LET free == (UnitsOf(q, lines) \div (rule.buy + rule.get)) * rule.get
        cheaper(i) == {j \in lines : q[j].unit < q[i].unit \/ (q[j].unit = q[i].unit /\ j < i)}
    IN  [i \in lines |-> Max({0, Min({q[i].quantity, free - UnitsOf(q, cheaper(i))})})]

GivenAway(q, rule) ==
    [i \in Meant(q, rule) |->
        (q[i].unit * FreeUnits(q, Meant(q, rule), rule)[i] * rule.percent) \div 10000]

\* What a rule takes altogether, before its cap.
Raw(q, rule) ==
    LET worth == WorthOf(q, Meant(q, rule))
    IN  IF OfShipping(rule) THEN Freight
        ELSE CASE rule.kind = "PERCENTAGE"   -> (worth * rule.value) \div 10000
               [] rule.kind = "FIXED_AMOUNT" -> Min({rule.value, worth})
               [] rule.kind = "BUY_X_GET_Y"  -> SumFunction(GivenAway(q, rule))

\* What it takes from each line it is about.
Allocated(q, rule) ==
    LET lines == Meant(q, rule)
        raw == Raw(q, rule)
    IN  CASE rule.kind = "PERCENTAGE" ->
               Spread(lines, raw, [i \in lines |-> (LinePrice(q[i]) * rule.value) \div 10000])
          [] rule.kind = "FIXED_AMOUNT" ->
               Spread(lines, raw, [i \in lines |-> (raw * LinePrice(q[i])) \div WorthOf(q, lines)])
          [] rule.kind = "BUY_X_GET_Y" -> GivenAway(q, rule)

\* What the seller pays of an amount: nothing of a rule the platform funds, all of his own,
\* and his share, rounded down, of one they fund together.
SellerPays(rule, amount) == (amount * rule.share) \div 10000

\* A rule gives nothing, or an amount, its parts and who pays for it.  The cap bounds the
\* amount and not the parts.
Evaluated(q, rule) ==
    LET parts == [i \in DOMAIN q |-> IF OfShipping(rule) \/ i \notin Meant(q, rule) THEN 0
                                     ELSE Allocated(q, rule)[i]]
        amount == Min({Raw(q, rule)} \cup rule.cap)
        seller == SellerPays(rule, amount)
    IN  IF Reached(q, rule) /\ amount > 0
        THEN {[rule |-> rule, amount |-> amount, parts |-> parts,
               seller |-> seller, platform |-> amount - seller]}
        ELSE {}

-----------------------------------------------------------------------------
(* All rules: resolveStackedPromotions                                     *)

\* The sort: by priority, then by value; it is stable.
Before(rules, k, l) ==
    \/ rules[k].priority > rules[l].priority
    \/ /\ rules[k].priority = rules[l].priority
       /\ rules[k].value > rules[l].value \/ (rules[k].value = rules[l].value /\ k < l)

\* The rule of the set s whose turn is the last.
LastOf(rules, s) == CHOOSE k \in s : \A l \in s \ {k} : Before(rules, l, k)

\* The targets a rule of the given scope names by type.
TargetsAs(rule, type) == {t \in rule.targets : t.type = type}

\* Whether what was applied so far keeps a rule out.
Excluded(stack, rule) ==
    \/ stack.closed
    \/ ~rule.stackable /\ stack.applied # <<>>
    \/ rule.scope = "SPECIFIC_PRODUCTS" /\ TargetsAs(rule, "PRODUCT") \cap stack.locked # {}
    \/ rule.scope = "SPECIFIC_CATEGORIES" /\ TargetsAs(rule, "CATEGORY") \cap stack.locked # {}

\* Variant: parts are taken whether or not the line has as much left.
Unfitted(offer, left) == offer

\* Parts that exceed what is left of a line are cut, and their sum becomes the amount; who
\* pays for it is not computed again.
Fitted(offer, left) ==
    LET cut == [i \in DOMAIN left |-> Min({offer.parts[i], left[i]})]
    IN  IF cut = offer.parts THEN offer
        ELSE [offer EXCEPT !.parts = cut, !.amount = SumFunction(cut)]

Locks(rule) == CASE rule.exclusion = "EXCLUSIVE_PRODUCT"  -> TargetsAs(rule, "PRODUCT")
                 [] rule.exclusion = "EXCLUSIVE_CATEGORY" -> TargetsAs(rule, "CATEGORY")
                 [] OTHER -> {}

Take(stack, offer) ==
    [left    |-> [i \in DOMAIN stack.left |-> stack.left[i] - offer.parts[i]],
     applied |-> Append(stack.applied, offer),
     closed  |-> offer.rule.exclusion = "EXCLUSIVE_SITEWIDE",
     locked  |-> stack.locked \cup Locks(offer.rule)]

\* The turn of a rule; one that finds nothing left to take is excluded.
Turn(q, stack, rule) ==
    LET offers == IF Excluded(stack, rule) THEN {}
                  ELSE {Fitted(o, stack.left) : o \in Evaluated(q, rule)}
    IN  IF \E o \in offers : o.amount > 0 THEN Take(stack, CHOOSE o \in offers : TRUE)
        ELSE stack

Untouched(q) == [left |-> [i \in DOMAIN q |-> LinePrice(q[i])], applied |-> <<>>,
                 closed |-> FALSE, locked |-> {}]

\* Each rule finds what the rules before it have left.
Stacked(q, rules) ==
    MapThenFoldSet(LAMBDA rule, stack : Turn(q, stack, rule), Untouched(q),
                   LAMBDA k : rules[k], LAMBDA s : LastOf(rules, s), DOMAIN rules)

-----------------------------------------------------------------------------
(* Properties                                                              *)

\* However many rules share a line, and whatever each rounds or cuts: no line costs less
\* than nothing; what the rules took and what is left make up its price; a rule's amount is
\* what its lines gave, unless its cap says less; and those who fund a rule without a cap
\* pay no less than its amount.
RulesShareLines(q, result) ==
    LET applied == result.applied
        taken(i) == SumFunction([k \in DOMAIN applied |-> applied[k].parts[i]])
    IN  /\ \A i \in DOMAIN q : /\ result.left[i] \in 0..LinePrice(q[i])
                               /\ result.left[i] + taken(i) = LinePrice(q[i])
        /\ \A k \in DOMAIN applied :
              LET o == applied[k]
                  gave == SumFunction(o.parts)
              IN  /\ o.amount \in 1..(o.seller + o.platform) \/ o.rule.cap # {}
                  /\ IF OfShipping(o.rule) THEN gave = 0 /\ o.amount <= Freight
                     ELSE o.amount = gave \/ (o.amount < gave /\ o.amount \in o.rule.cap)

\* Every quote of every campaign.
PromotionsShareLines == \A q \in Quotes, rules \in Campaigns : RulesShareLines(q, Stacked(q, rules))
=============================================================================
