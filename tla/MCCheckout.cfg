\* Two requests that check out, release the coupon or edit lines of a customer's two carts, and
\* two of other kinds.
SPECIFICATION CheckoutSpec
CONSTANTS
    r1 = r1
    r2 = r2
    r3 = r3
    r4 = r4
    Requests = {r1, r2, r3, r4}
    None = None
    Mine = Mine
    Guest = Guest
    Stock = 2
    Operations <- TwoAndOne
    Delayed = {r4}
    Keys = {k1, k2}
    Tenders <- TwoTenders
    Opening = 1
    Deposit = Deposit
    Limit = 1
    mine = mine
    yours = yours
    Anyone = Anyone
    Fee = 3
    Baskets <- SmallBaskets
    Rules <- SmallRules
    AnySeller = Anyone
    Freight = 3
    Quotes <- SmallQuotes
    Campaigns <- SmallCampaigns
SYMMETRY Interchangeable
INVARIANTS CheckoutTypeOK LinesMeet ConversionStands KeysBuyOnce MoneyIsKept
    OverdraftOnlyTogether CouponUseIsCounted DiscountsAddUp
    PromotionsFit
CHECK_DEADLOCK FALSE
