------------------------------ MODULE Checkout ------------------------------
(***************************************************************************)
(* Buying what is in a cart: PlaceOrderTransactionService on the carts,    *)
(* with the coupon (CouponLifecycleService) and the wallet (the ledger's   *)
(* WalletLedgerRepository) it draws on.  An order is priced outside the    *)
(* transaction that claims the cart; the transactions run Read Committed,  *)
(* so what one of them read may have changed when it writes.               *)
(*                                                                         *)
(* A unit costs one; discounts, shipping and tax are the subject of        *)
(* Pricing.  An order, a redemption of the coupon and a journal are named  *)
(* by the request that created them.  The coupon is a discount rule.       *)
(***************************************************************************)
EXTENDS Carts, FiniteSetsExt

CONSTANTS
    Keys,     \* idempotency keys the customer sends
    Tenders,  \* ways to pay, each with or without the coupon
    Opening,  \* the wallet's balance at first
    Deposit,  \* the journal it was credited by
    Limit     \* the coupon's usageLimit

Methods == {"CUSTOMER_WALLET", "COD"}

ASSUME CheckoutAssumption ==
    /\ None \notin Keys
    /\ Tenders \subseteq Methods \X BOOLEAN
    /\ Opening \in Nat \ {0}
    /\ Deposit \notin Requests \cup {None}
    /\ Limit \in Nat \ {0}

VARIABLES
    orders,       \* order rows
    redemptions,  \* redemptions of the coupon, by status
    usage,        \* the coupon's usageCount
    wallet,       \* the wallet's availablePoisha
    journals,     \* ledger journals with the wallet's posting
    day,          \* 1 after midnight
    reversed      \* history: the reversals of redemptions that were carried out

shopVars == <<orders, redemptions, usage, wallet, journals, day, reversed>>
checkoutVars == <<cartVars, shopVars>>

-----------------------------------------------------------------------------
Ordered == DOMAIN orders

Redeemed == DOMAIN redemptions

Posted == DOMAIN journals

\* A function with one more row.
With(f, r, row) == [x \in DOMAIN f \cup {r} |-> IF x = r THEN row ELSE f[x]]

CheckoutInit ==
    /\ CartInit
    /\ orders = <<>>
    /\ redemptions = <<>>
    /\ usage = 0
    /\ wallet = Opening
    /\ journals = [j \in {Deposit} |-> [delta |-> Opening, undoes |-> None]]
    /\ day = 0
    /\ reversed = {}

\* Units a cart holds.
Units(c) == LET held == carts[c].lines IN MapThenSumSet(LAMBDA l : held[l], DOMAIN held)

Midnight ==
    /\ day = 0
    /\ day' = 1
    /\ UNCHANGED <<cartVars, orders, redemptions, usage, wallet, journals, reversed>>

-----------------------------------------------------------------------------
(* placeOrder                                                              *)

\* The order number is a digest of what is asked for and of the date.
Number(x) == <<x.cart, x.key, x.method, x.day>>

Numbered(x) == {o \in Ordered : Number(orders[o]) = Number(x)}

\* Variant: a repeated request is not recognised.
NoReplay(x) == {}

Replayed(x) == Numbered(x)

\* A request whose order exists is answered with it.
BeginCheckout(r) ==
    /\ Idle(r, "check out")
    /\ \E c \in Carts, k \in Keys, tender \in Tenders :
          LET x == [Blank EXCEPT !.cart = c, !.key = k, !.method = tender[1],
                                 !.coupon = tender[2], !.day = day]
          IN  IF Replayed(x) # {} THEN Enter(r, "done", Blank) ELSE Enter(r, "cart", x)
    /\ UNCHANGED <<carts, holder, undone, shopVars>>

ReadCart(r) ==
    /\ pc[r] = "cart"
    /\ LET c == local[r].cart
       IN  IF carts[c].status = "ACTIVE" /\ Lines(c) # {}
           THEN Advance(r, "price", [local[r] EXCEPT !.version = carts[c].version])
           ELSE Answer(r)
    /\ UNCHANGED <<carts, holder, undone, shopVars>>

\* Variant: only the first read of the lines is checked.
AnyCalculation(r) == TRUE

MayCalculate(r) == Lines(local[r].cart) # {}

\* Variant: the limit of the coupon is not looked at.
CouponIgnored(r) == TRUE

CouponApplies(r) == local[r].coupon => usage < Limit

\* calculateCheckout reads the lines again.  It may refuse for a price, a stock or a risk
\* that is not modelled.
Price(r) ==
    /\ pc[r] = "price"
    /\ \/ /\ MayCalculate(r) /\ CouponApplies(r)
          /\ Advance(r, "claim", [local[r] EXCEPT !.amount = Units(local[r].cart)])
       \/ Answer(r)
    /\ UNCHANGED <<carts, holder, undone, shopVars>>

\* Variant: the claim does not compare the status and the version.
AnyClaim(r) == TRUE

\* The condition of the update that claims the cart.
MayClaim(r) ==
    /\ carts[local[r].cart].status = "ACTIVE"
    /\ carts[local[r].cart].version = local[r].version

\* Variant: the balance is not compared with the total.
WalletIgnored(r) == TRUE

\* The wallet as it is read.
Affords(r) == local[r].method = "CUSTOMER_WALLET" => wallet >= local[r].amount

\* The transaction begins: it claims the cart, once nobody has it locked, and reads the
\* wallet.
Claim(r) ==
    /\ pc[r] = "claim"
    /\ ~Locked(local[r].cart)
    /\ IF MayClaim(r) /\ Affords(r)
       THEN Advance(r, "commit", [local[r] EXCEPT !.delta = wallet])
       ELSE Answer(r)
    /\ UNCHANGED <<carts, holder, undone, shopVars>>

\* order_number and the payment's idempotency key are unique.  So is groupNumber, which is
\* made of the day and the seller's place in the order: it refuses more orders than these do,
\* and is left out.
MayCommit(r) ==
    /\ Numbered(local[r]) = {}
    /\ \A o \in Ordered : orders[o].key # local[r].key

\* Variant: the balance that was read is written back less the total.
WriteBack(r) == local[r].delta - local[r].amount

Debited(r) == wallet - local[r].amount

Commit(r) ==
    /\ pc[r] = "commit"
    /\ IF MayCommit(r)
       THEN LET x == local[r]
            IN  /\ carts' = [carts EXCEPT ![x.cart].status = "CONVERTED",
                                          ![x.cart].version = @ + 1]
                /\ holder' = [holder EXCEPT ![x.cart] = r]
                /\ orders' = With(orders, r, [cart |-> x.cart, key |-> x.key,
                                              method |-> x.method, day |-> x.day,
                                              amount |-> x.amount])
                /\ wallet' = IF x.method = "CUSTOMER_WALLET" THEN Debited(r) ELSE wallet
                /\ redemptions' = IF x.coupon THEN With(redemptions, r, "COMMITTED")
                                  ELSE redemptions
                /\ usage' = IF x.coupon THEN usage + 1 ELSE usage
       ELSE UNCHANGED <<carts, holder, orders, wallet, redemptions, usage>>
    /\ Answer(r)
    /\ UNCHANGED <<undone, journals, day, reversed>>

-----------------------------------------------------------------------------
(* The coupon: applyAndReserveCoupon and releaseRedemption                 *)

Standing == {q \in Redeemed : redemptions[q] # "REVERSED"}

\* One redemption per customer, and the limit, as the transaction reads them.
BeginReserve(r) ==
    /\ Idle(r, "reserve")
    /\ Standing = {}
    /\ usage < Limit
    /\ Enter(r, "reserve", Blank)
    /\ UNCHANGED <<carts, holder, undone, shopVars>>

Reserve(r) ==
    /\ pc[r] = "reserve"
    /\ redemptions' = With(redemptions, r, "RESERVED")
    /\ usage' = usage + 1
    /\ Answer(r)
    /\ UNCHANGED <<carts, holder, undone, orders, wallet, journals, day, reversed>>

BeginRelease(r) ==
    /\ Idle(r, "release")
    /\ \E q \in Standing : Enter(r, "release", [Blank EXCEPT !.undoes = q])
    /\ UNCHANGED <<carts, holder, undone, shopVars>>

\* Variant: the counter moves, the row does not.
KeepRedemption(q) == redemptions

Reverse(q) == [redemptions EXCEPT ![q] = "REVERSED"]

\* The status is not read again.
Release(r) ==
    /\ pc[r] = "release"
    /\ redemptions' = Reverse(local[r].undoes)
    /\ usage' = usage - 1
    /\ reversed' = reversed \cup {[row |-> local[r].undoes, by |-> r]}
    /\ Answer(r)
    /\ UNCHANGED <<carts, holder, undone, orders, wallet, journals, day>>

-----------------------------------------------------------------------------
(* The wallet's ledger: recordJournal and reverseJournal                   *)

\* A journal may not take more than the wallet holds, as it is read.
BeginJournal(r) ==
    /\ Idle(r, "journal")
    /\ \E delta \in {-1, 1} :
          /\ wallet + delta >= 0
          /\ Enter(r, "post", [Blank EXCEPT !.delta = delta, !.amount = wallet + delta])
    /\ UNCHANGED <<carts, holder, undone, shopVars>>

Reversals(j) == {x \in Posted : journals[x].undoes = j}

\* Looks for an earlier reversal before the transaction begins.
BeginReversal(r) ==
    /\ Idle(r, "reverse")
    /\ \E j \in Posted :
          /\ journals[j].undoes = None /\ Reversals(j) = {}
          /\ Enter(r, "reverse", [Blank EXCEPT !.undoes = j, !.delta = -journals[j].delta])
    /\ UNCHANGED <<carts, holder, undone, shopVars>>

\* The new journal names what it reverses in a unique column: it waits for another one
\* that is being posted and fails when that is committed.
OpenReversal(r) ==
    /\ pc[r] = "reverse"
    /\ \A q \in Requests : pc[q] = "post" => local[q].undoes # local[r].undoes
    /\ IF Reversals(local[r].undoes) = {}
       THEN Advance(r, "post", [local[r] EXCEPT !.amount = wallet + local[r].delta])
       ELSE Answer(r)
    /\ UNCHANGED <<carts, holder, undone, shopVars>>

\* The balance is written as it was computed.
Post(r) ==
    /\ pc[r] = "post"
    /\ wallet' = local[r].amount
    /\ journals' = With(journals, r, [delta |-> local[r].delta, undoes |-> local[r].undoes])
    /\ Answer(r)
    /\ UNCHANGED <<carts, holder, undone, orders, redemptions, usage, day, reversed>>

-----------------------------------------------------------------------------
Step(r) ==
    \/ BeginCheckout(r) \/ ReadCart(r) \/ Price(r) \/ Claim(r) \/ Commit(r)
    \/ BeginReserve(r) \/ Reserve(r) \/ BeginRelease(r) \/ Release(r)
    \/ BeginJournal(r) \/ BeginReversal(r) \/ OpenReversal(r) \/ Post(r)
    \/ CartStep(r) /\ UNCHANGED shopVars

CheckoutNext == Midnight \/ \E r \in Requests : Step(r)

CheckoutSpec == CheckoutInit /\ [][CheckoutNext]_checkoutVars

-----------------------------------------------------------------------------
(* Properties                                                              *)

Overlap(p, q) == p \notin past[q] /\ q \notin past[p]

CheckoutTypeOK ==
    /\ CartTypeOK
    /\ \A o \in Ordered : o \in Requests /\ orders[o].amount \in Nat \ {0}
    /\ \A q \in Redeemed : q \in Requests /\ redemptions[q] \in {"RESERVED", "COMMITTED", "REVERSED"}
    /\ usage \in Int /\ wallet \in Int /\ day \in 0..1
    /\ \A j \in Posted :
          j \in Requests \cup {Deposit} /\ journals[j].undoes \in Posted \cup {None}

\* A cart is merged, abandoned or recovered by a write that does not look at its status
\* again.  It turns a cart that was sold back only when it began before the order was
\* answered, and no cart is sold twice unless that happened.
ConversionStands ==
    /\ \A u \in undone : u.order \notin past[u.by]
    /\ \A p, q \in Ordered :
          p # q /\ orders[p].cart = orders[q].cart => \E u \in undone : u.order \in {p, q}

\* The device of the customer asks again after a lost answer, maybe from a cart that was
\* opened again: a request that repeats an answered one on the same day stops at its
\* order, and a key never places two, not even after midnight when the number is another.
KeysBuyOnce ==
    /\ \A r \in Requests : pc[r] \in {"cart", "price", "claim", "commit"} =>
          \A o \in past[r] \cap Ordered : Number(orders[o]) # Number(local[r])
    /\ \A p, q \in Ordered : orders[p].key = orders[q].key => p = q

Debits == {o \in Ordered : orders[o].method = "CUSTOMER_WALLET"}

Balance == MapThenSumSet(LAMBDA j : journals[j].delta, Posted)
           - MapThenSumSet(LAMBDA o : orders[o].amount, Debits)

\* Journals of the requests.
Entries == Posted \ {Deposit}

\* Orders debit the wallet by what they cost, journals write the balance they computed:
\* money is lost or made only when a journal overlapped another writer of the wallet,
\* never by two orders.
MoneyIsKept ==
    wallet # Balance => \E j \in Entries, w \in Entries \cup Debits : w # j /\ Overlap(w, j)

\* The balance is checked when it is read: without the reversal of a credit, which is not
\* checked, only the debit of an order that overlapped another writer of the wallet takes it
\* below zero.  Journals alone never do, however they overlap.
OverdraftOnlyTogether ==
    wallet < 0 =>
        \/ \E j \in Entries : journals[j].undoes # None /\ journals[j].delta < 0
        \/ \E p \in Debits, w \in Debits \cup Entries : p # w /\ Overlap(p, w)

\* The coupon is redeemed by reservations and by orders, and its counter is checked long
\* before it is raised: a redemption that begins when the limit was reached, reversals
\* aside, is refused.  The counter and the rows agree except that reversals of the same
\* redemption, which then overlapped, are all counted.
CouponUseIsCounted ==
    /\ \A p \in Redeemed : Cardinality(past[p] \cap Redeemed) < Limit + Cardinality(reversed)
    /\ usage = Cardinality(Redeemed) - Cardinality(reversed)
    /\ \A a, b \in reversed : a.row = b.row /\ a # b => a.by \notin past[b.by]
=============================================================================
