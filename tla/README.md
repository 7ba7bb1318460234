# AlifWorld in TLA+

AlifWorld is a multi-vendor marketplace: a Next.js application whose services
run on one PostgreSQL database through Prisma. This directory holds TLA+ models
of the parts of it where the order of steps matters, TLC configurations that
check them on small instances, and proofs checked by TLAPS.

Paths below are relative to the repository's own `src/` directory.

## 1. Inventory of the system

| Component | State | Operations | Talks to |
|---|---|---|---|
| Stock balances and reservations (`features/inventory`) | `stock_balances` (onHand, reserved, damaged, quarantined, version), `stock_reservations` (status, version, TTL), movement ledger | reserve, commit, release, compensate, expiry sweep, receive, adjust, quarantine, RMA intake, inspect, restock, thresholds | called by routes; writes the outbox |
| Transfers, stock counts, RMA records (same service) | Maps in a service instance, one instance per route | transfer, receive a transfer, count session, submit and approve a correction | stock balances |
| Order state machine (`features/orders/state-machines`) | three transition maps, two actor tables | validate, derive the parent status | used by the transition service |
| Order transition service (same directory) | order, groups, items, status history, idempotency receipts, outbox | transition of an order, a group, an item | called by routes, seller and courier services |
| Courier dispatch (`features/shipping`) and riders (`services/rider-delivery.service.ts`) | shipments, shipment events, consignments at the courier | dispatch, courier callback, doorstep verification, tracking event, cancel, a rider's acceptance | order transition service, courier adapters |
| Sessions (`services/auth-token.service.ts`, `repositories/session.repository.ts`) | sessions with a token hash, a generation and consumed hashes; token version of a user | issue, rotate with reuse detection, revoke, enforce the session limit | every authenticated route |
| Phone codes and passwords (`services/phone-auth.service.ts`, `services/password-security.service.ts`) | one-time codes with an attempt counter, the password | send, enter, reset, change | sessions |
| Cart (`features/cart`) and abandoned carts (`features/checkout/services/abandoned-checkout-recovery.service.ts`) | cart status and version, lines | add, change, remove, clear, attach a coupon, merge the guest's cart, abandon, recover | catalog, checkout |
| Checkout and order placement (`features/checkout`) | orders, the cart it claims, wallet balance, coupon count and redemptions | calculate, place the order in one transaction | cart, pricing, coupons, wallet |
| Pricing (`features/checkout/services/server-checkout-calculation.service.ts`, tax service) | none | discounts of lines, tax, totals of groups and order | read by checkout |
| Promotion rules of a quote (`shared/pricing`) | none | evaluate a rule, stack rules by priority and exclusion, split their funding | read by the quote and stacking routes |
| Coupons (`features/checkout/services/coupon-lifecycle.service.ts`) | redemptions, usage counter | reserve, release | checkout |
| Wallet ledger (`repositories/wallet-ledger.repository.ts`) | balances, journals with postings | record and reverse a journal | rewards; orders write the balance too |
| Payments and refunds (`services/payment-reconciliation.service.ts`, `repositories/payment.repository.ts`) | payment status, refunds, webhook log, commission ledger | gateway event, refund; the callback route only logs | order history |
| Catalog, sellers, B2B, CMS, reviews, search, workers | single rows each | mostly reads and single-row writes | |

Interaction is by calls inside one process and by rows in one database. There is
no lock and no queue between components: the background workers register queue
names and process nothing. What makes the behaviour hard is that several
instances of the process serve requests at the same time.

**Where it is hard**

- *Inventory* uses no database transaction. The service relies on a version
  column, but `atomicUpdate` compares it in one query and writes by primary key in
  another, and a reservation is marked in a query of its own. A request can lose
  a race, or die, between any two of these.
- *Orders* use Serializable transactions with three attempts, so each transition
  is atomic. Difficulty lies in the mix: sellers, couriers, customers and
  administrators move different rows of one order, a cancellation cascades, the
  parent is derived, and callers retry with idempotency keys.
- *Couriers* read the group before they call the carrier and open the transaction
  only afterwards. Callbacks repeat and arrive late; tracking events check in one
  query and write in another.
- *Sessions and one-time codes* use no transaction but for the change of a
  password: what a request read about a token, a code or the list of sessions may
  be out of date when it writes.
- *Carts* are edited and merged without a transaction, while an order claims them in
  one. Orders are priced before the transaction, and it runs Read Committed: the
  wallet, the coupon and the ledger are checked as they were read.
- *Payments* are written by gateways, which repeat events, and by refunds, which sum
  the refunds they read.

The properties that make each part correct are, in short: *inventory*: columns
stay non-negative, reserved units are exactly those booked and not settled, a
live reservation is always backed; *orders*: items, groups, parent and history
agree, an order only advances, a key names one transition; *couriers*: one parcel
per group, group and shipment delivered together and once; *sessions*: a token is
traded once and a breach ends every sign-in that had begun; *codes*: one is used once,
guesses run out, and none outlives the password it could reset; *checkout*: a cart and a key
become one order, the wallet and the coupon's counter tell what was bought; *pricing*:
lines, groups and order say the same amounts; *payments*: refunds stay within the
capture, and an event acts once. Several of these the code keeps only when requests
do not overlap. The property then says so: what holds of requests of which one began
after the other was answered, and that overlap is the only exception.

## 2. The modules

| Module | Models | Extends |
|---|---|---|
| `StockRow` | arithmetic of one balance: checks of `atomicUpdate`, column changes of every operation | |
| `Inventory` | concurrent requests against one balance and its reservations | `StockRow` |
| `ReservationBook` | abstract: what the inventory promises | `StockRow` |
| `InventoryProofs` | proofs about `Inventory` | `Inventory`, `SetLemmas` |
| `OrderStates` | transition maps, actors, derived parent status | |
| `OrderLifecycle` | order, groups, items under the transition service | `OrderStates` |
| `OrderProofs` | proofs about `OrderLifecycle` | `OrderLifecycle` |
| `CourierDispatch` | courier service composed with the order life cycle | `OrderLifecycle` |
| `CourierProofs` | proofs about the composition | `CourierDispatch`, `OrderProofs` |
| `SetLemmas` | lemmas about finite sets and sums over them, cited by the proofs | |
| `Sessions` | sessions and refresh tokens of one account | |
| `Accounts` | sign-in, one-time codes and the password on top of them | `Sessions` |
| `AccountProofs` | proofs about `Accounts` with its sessions | `Accounts`, `SetLemmas` |
| `Carts` | a customer's cart and the guest's cart merged into it | |
| `Checkout` | placing orders from the carts, with coupon, wallet and ledger | `Carts` |
| `CheckoutProofs` | proofs about carts and their conversion, keys, coupon and wallet | `Checkout`, `SetLemmas` |
| `Pricing` | discounts, tax and totals of a basket, as functions | |
| `Promotions` | what a discount rule gives and how rules stack on a quote, as functions | |
| `Prices` | checkout together with what it charges | `Checkout`, `Pricing`, `Promotions` |
| `PriceProofs` | proofs about `Pricing` and `Promotions` | `Prices`, `SetLemmas` |
| `Payments` | gateway events, commissions and refunds of one payment | |
| `PaymentProofs` | proofs about `Payments` | `Payments`, `SetLemmas` |
| `MCInventory`, `MCOrders`, `MCCourier`, `MCAccounts`, `MCCheckout`, `MCPayments` | instances for TLC | the modules they are named after; `MCCheckout` is of `Prices` |

Definitions whose comment starts with *Variant* are altered forms of the
definition after them, with a plausible mistake in it. They are not part of any
specification: each shows that some property notices the mistake.

### Inventory

The state is the row of the balance, its version, the reservation rows, which
reservations are past their time, and for each request its program counter and
what it holds in memory. Every awaited query of the service is one action:

- `BeginReserve`, `TryReserve`, `CreateReservation`: the idempotency lookup, the
  head of the retry loop, the insert;
- `Verify`, `Store`: the two queries of `atomicUpdate`;
- `Check`, `Mark`: the two queries of `reservationRepo.commit`, `release` and
  `expire`;
- `BeginSettle`, `ReadBalance`: commit and release; `BeginCompensate`,
  `FindCompensated`: compensation; `BeginSweep`, `SweepNext`: the expiry sweep;
- one action for the first read of each other operation, then `Verify` and `Store`.
  Among them are `TransferStock`, which sends units to another warehouse, and
  `SubmitCount`, whose variance is computed from the row that was read; a variance above
  `Tolerance` (ten in the code) waits for an approval;
- `RecordMovement`: the movement ledger;
- `Elapse`: a reservation's time runs out; `Fail`: a query throws or the process
  dies.

A compensation releases whatever ACTIVE reservation it is given and takes its units off the
balance its caller names; nobody compares the two. `Foreign` are reservations of another
balance it may be given, and `away` marks a request about that balance, which may be given a
reservation of this one: of such a request only the reservation row is modelled
(`GiveUnitsBack`, `RestoreUnits`).

Four history variables follow what happened, and no action reads them: `booked`, `settled`,
`strayed` (units of foreign reservations taken off this balance) and `clobbered` (some
`Store` overwrote a version it had not verified). A request is served once; its retry is
another request. The cutoff of a sweep is an argument in the code and may lie in the future,
so the sweep lists either what is due or everything.

Transfers, and counts that await approval, are remembered in a `Map` of the service
instance. Each route file creates an instance of its own, so the routes that receive a
transfer or approve a count never find the record and always refuse; they change
nothing and have no action.

Simplifications: one balance that exists already; cart and order references of a
reservation are one reference; the outbox and the alert of low stock are left out;
the sweep's batch of a hundred is above the bounds.

### Orders

A transition is one atomic action, because the service runs it in a Serializable
transaction and retries it when it fails to serialize. `TransitionOrder` includes the cascade
to groups and items; `TransitionGroup` includes item synchronisation and the
derived parent; `TransitionItem` is the guarded move of one item. `trail` holds the
history rows (each written with its outbox event), `receipts` the idempotency
receipts. `Sent` is what the routes and services of the repository send: nobody
sends an order transition as SYSTEM, and couriers report hand-overs and deliveries.
The order starts in PENDING_PAYMENT, or PROCESSING when it was paid from the wallet.
Each role stands for one actor.

### Couriers

`CourierDispatch` extends the order module with shipments, their events, the
consignments the courier accepted, and the calls of the service. `Book` is the call
of the adapter, outside any transaction; `Handover` is the transaction that hands
the group over and creates the shipment with it (`Together` is the transition
service's callback: both or neither). `BeginAppend`, `BeginCancel` and
`WriteStatus` are the check and the write of tracking events and cancellations.
The callback is one step: what it reads before it writes never changes. `BeginAccept`,
`ClaimParcel` and `RecordClaim` are a rider's acceptance, a service of its own that
writes the status and its event in two queries and asks no transition; leases, which
nobody creates, never refuse it. Customers,
sellers and administrators go on sending transitions (`MoveOrder`). The in-house
fleet and one external courier stand for all: only the latter verifies callbacks.

### Accounts

`Sessions` is the state of one account in `user_sessions` and the token version of the
user, with one action per query:

- `SignIn`, `CreateSession`, `StoreFirstToken`, `ListSessions`, `TrimSessions`:
  `issueTokenPair` and `enforceSessionLimit`;
- `BeginRotation`, `ReadLineage`, `WriteRotation`: `rotateRefreshToken` and the two
  queries of `rotateSessionRefreshToken`; the current token, the consumed ones and the
  generation are compared as `BeginRotation` reads them;
- `RevokeFamily`, `RevokeEveryone`, `RaiseVersion`: what reuse detection does, in this order;
- `SignOut`, `SignOutOthers`, `BeginSignOutAll` and `SweepSessions`: logout, and the
  revocations of one, the other and all sessions; `Fail`: the process dies.

`Accounts` adds the password and the one-time codes: `BeginSend`, `MarkCodes` and
`IssueCode` (the cooldown and the hourly limit, older codes, the new code), `BeginCode`,
`CountGuess`, `SpendCode` and `ConsumeLoginCode` (a guess, right or wrong, at the
code as it was read), `ResetPassword`, `BeginChange` and `ChangePassword` (each of
the two changes is one step, because it is one transaction that compares again).
A sign-in by phone goes on with `CreateSession`.

The histories are `past` (which requests had been answered when each began, the measure
of overlap in all modules below), `ended`, `accepted`, `wrong`, `void` and `changes`.
Left out: that sessions and codes expire, the status of the account, the audit log, and
registration and e-mail codes, which have the shape of the codes modelled. The hourly
limit counts the whole run. The user row is read with the first query of a request.

### Checkout

`Carts` has the carts' rows and lines of one variant, the case in which lines meet.
`BeginAdd` and `WriteLine` are the two queries of an addition, `ReadLine`, `WriteLine` and
`RetireGuest` a merge, line by line. `ChangeLine` is both `updateItemQuantity` and
`removeItem`: one write that looks neither at the cart nor its version. `ClearLines` and
`AttachCoupon` follow a read of the active cart. `Abandon`, `Recover` and `RetireGuest`
overwrite the status of a cart by its key (`Overwrite`). While a transaction has claimed a
cart its row is locked (`Locked`).

`Checkout` composes them with `PlaceOrderTransactionService`: `BeginCheckout` looks for
an order of the same number, `ReadCart` and `Price` read cart and lines outside the
transaction, `Claim` is the conditional update that opens it, and `Commit` is its end:
unique columns are compared, the cart is converted, the wallet debited, the coupon
redeemed and counted. `BeginReserve`, `Reserve`, `BeginRelease`, `Release` are the
coupon's reservation and release; `BeginJournal`, `BeginReversal`, `OpenReversal` and `Post`
the ledger's journals, which write a balance they computed. `Midnight` changes the
date, and the order number with it. `Delayed` is a recovery that has read an abandoned
cart and waits. A process that dies is a request that takes no further step.

Simplifications: one customer, a unit costs one, the coupon is a discount rule; the coupon
code stored on a cart is not read by orders. `revalidateCart` writes what `ChangeLine` and
`AttachCoupon` write. Checkout may refuse for a price, a stock or a risk (`Price` has that
alternative). The unique `groupNumber` of an order's groups is left out of `MayCommit`: it
only makes the code refuse more, a second order of a UTC day even from another cart (section
4), so what holds of the model's orders holds of the code's. The orchestrator's status
history row lacks a column the schema requires, and always fails; it is not modelled. At
this commit nothing calls `recordAbandonedCart` nor the reversal of a journal, and only
reward ranks record one.

`Pricing` is the arithmetic of `ServerCheckoutCalculationService` as functions of a
basket and a coupon: `CouponAmount`, `LineDiscounts` (rounded per line, the last line
takes the rest), `Tax`, `GroupOf` and `OrderTotal`. The code divides in floating point; the
quotients are exact below 2^53.

`Promotions` is the other discount engine, that of quotes: `Evaluated` is
`evaluateDiscountRule` with its scopes, thresholds, caps and funding, `Stacked` folds
`resolveStackedPromotions` over the rules, the last of the sort (`LastOf`, `Before`) after
all others, each taking what the ones before left (`Fitted`). Campaigns are of rules that
are active, in their dates and for this buyer; the others are never applied.

### Payments

One payment, its refunds, the webhook log, and the commissions of its groups.
`BeginDelivery`, `LogEvent`, `Verify`, `Apply`, `Confirm`, `BookCommission` (one group at
a time) and `Close` are the queries of `handleGatewayWebhook`. `BeginCallback` and
`RecordCallback` are the live callback route, which writes to the same log and does
nothing else. `BeginRefund`, `OpenRefund`, `WriteRefund` and `NoteRefund` are
`processRefund`, with the transaction of `createRefund` split where it has read the
refunds. `initiatePayment` and the settlements are left out.

## 3. The runs

| Run | Configuration | Shows |
|---|---|---|
| `reservations` | three requests (reserve, commit, release, expire), one prior reservation, two units, two attempts, failures | `TypeOK`, `ReservedConservation`, `ActiveIsBacked` |
| `balance` | two requests of any of the fourteen operations, a reservation of this balance and one of another, quantities 1 and 2, failures, fairness | `StockNonNegative`, `ReservedConservation`, `ActiveIsBacked`, `ImplementsBook`, `RequestsAnswered` |
| `oversold` | two buyers, one unit, the documented ten attempts | `NeverOversold` is violated |
| `stranded` | a sale and a release of two reservations, no failures | `ReservedIsActive` is violated |
| `orders` | three sellers, four items | `TypeOK`, `ItemsFollowGroups`, `ParentMatchesGroups`, `HistoryReplays`, `OrderOnlyAdvances` |
| `receipts` | two sellers, one key per actor, used for anything | `KeysNameOneTransition` |
| `order_map` | one seller | `OrderFollowsItsMap` is violated |
| `couriers` | one seller, four calls of any kind, process deaths | `CourierTypeOK`, `ParcelsTravelOnce`, `DeliveredTogether`, `ImplementsOrders` |
| `regress` | dispatch, verification and a tracking event | `DeliveredIsFinal` is violated |
| `sign_in` | four requests of any kind, one session allowed, one wrong guess, one remembered token, process deaths | `AccountTypeOK`, `EndedSignInsStayDead`, `LimitHolds`, `ForksOverlap`, `CodesWorkOnce`, `ReplacedCodesDie`, `GuessesRunOut`, `OneCodePerCooldown`, `OneChangePerPassword`, `CodesDieWithThePassword` |
| `purchases` | two requests that check out, release the coupon, add or change a line, a request of the other kinds and a delayed recovery; two keys, two units of stock, a wallet with one, a coupon for one; baskets of up to four lines, quotes of up to three | `CheckoutTypeOK`, `LinesMeet`, `ConversionStands`, `KeysBuyOnce`, `MoneyIsKept`, `OverdraftOnlyTogether`, `CouponUseIsCounted`, `DiscountsAddUp`, `PromotionsFit` |
| `payments` | two deliveries or callbacks of three events, two refunds, a payment of two, two groups | `RefundsStayWithinCapture`, `EventsActOnce`, `StatusTellsRefunds` |

**Bounds.** Two requests are enough for a lost update and for a race of commit with
the sweep; three let a third one read between the two. Two attempts exercise both
ends of the retry loop (`MaxAttempts` is ten in the code, and ten in `oversold`).
Quantities 1 and 2 against two units make every check succeed and fail. One foreign
reservation of one unit, where the row has one or two reserved, is enough for `reserved` to
drift; the other inventory runs have none. Three
sellers, one with two items, give every mix of statuses the derivation tells apart
(delivered, on the road, withdrawn, still at the seller, in threes), and the theorems
cover any number. Four calls allow a dispatch, a second dispatch, a delivery and
a late event of the same parcel. Two groups with couriers exceed a small instance;
the proofs do not have that bound. Calls and requests are symmetric where no
liveness is checked. A count tolerance of one lets a count be within it and beyond it.

Four requests for an account (1.6 million states) are enough for a rotation and its
duplicate, a breach and a sign-in in between; or two senders of codes and two guesses; or a
reset, a change and two guesses. The limits are as small as they can be (one session, one
guess, one remembered token), so that each is reached and exceeded; two codes an hour leave
room for a second one after the cooldown. In `purchases` (1.5 million states) the other
request and the delayed recovery are enough to sell a cart twice, and two releases to
reverse one redemption twice. Two lines of one variant in a cart do come about: the third
request clears it and two overlapping additions find no line, or one of the two removes its
line and the other one adds while the third merges. Two journals and an order together are
out of its reach. The opening balance pays for one unit and comes from a journal (`Deposit`)
that may be reversed, the coupon serves once, and carts hold up to two units of stock.
Baskets have lines of one, two and five poisha of two sellers, one of them taxed, against
fixed and percentage coupons with and without cap: roundings go both ways. Quotes of two
products meet every pair of eight rules, and every pair after a rule of 99 percent that
leaves less than the next ones ask for; the eight have each kind of discount, scope and
exclusion, with and without cap and threshold. `DiscountsAddUp` and `PromotionsFit`
(`Prices`) look at the prices before the first request, as they do not depend on the state.
In `payments` (0.7 million states) two deliveries race each other and both refunds; one
event carries no identifier.

`couriers` and `regress` turn deadlock checking off: each call is served once, and when all
are answered and the order is at its end the system stops. So do `sign_in`,
`purchases` and `payments`, for the same reason. `Inventory` has an explicit `Finished` step
instead. The transition service's own stutters keep the order runs from ending.

**Fairness.** `RequestsAnswered` assumes weak fairness of `Step(p)` for each
request: the event loop resumes a request when its query answers, and a query
answers or throws. Nothing is assumed about new requests, the clock or failures. The
retry loop ends by its bound, the sweep because its list is finite.

## 4. Where documentation and code part

1. `docs/architecture/warehouse-inventory-and-stock-movements.md:175` says
   overselling is mathematically impossible, on the ground of an
   `UPDATE ... WHERE version = 1`. The code's update is by id alone: two buyers can both
   pass the comparison and reserve the last unit (`oversold`).
2. Line 20 of the same document defines *Reserved* by live sessions. A release or a
   commit that loses a race has already marked its reservation; nothing ever frees
   the units (`stranded`).
3. `order-state-machine.ts:17` calls the maps the single source of truth; the derived
   parent status takes PROCESSING to SHIPPED and other edges they lack (`order_map`).
4. `courier-dispatch.service.ts:602` refuses to regress a delivered shipment; the
   check and the write are separate queries (`regress`). A late callback does the same
   without a check.

The following have no run of their own.

5. Receiving a transfer and approving a count are described at
   `features/inventory/services/inventory-service.ts:876` and `:1054`. The routes
   `inventory/transfers/receive` and `inventory/counts/corrections/approve` construct a
   service of their own (line 10 of each) and never find a record. Units sent to another
   warehouse do not arrive.
6. `services/auth-token.service.ts:263` calls refresh tokens single-use. Two rotations of
   one token that overlap both succeed; `ForksOverlap` is what remains true.
7. `docs/architecture/carts-orders-fulfillment-groups-and-shipments.md:21-22` and `:43-44` say
   that editing a line moves the cart's version under its row lock. It does not: a line may
   change between pricing and the claim. Lines 25-26 derive the order number from the
   cart's creation date; the code uses the day of the request, so a retry after midnight is not
   recognised and fails on the payment's unique key (`KeysBuyOnce` holds by that key).
8. `docs/architecture/payments-refunds-commissions-settlements-and-payouts.md` bounds refunds at all
   times; overlapping refunds exceed the capture. It promises a commission reversal for a
   refund, which nothing records, and deduplication of callbacks: the live route looks for
   `PROCESSED` and writes `VERIFIED`. A delivery that dies after it logged its event makes
   every later delivery of that event a duplicate.
9. Pricing. With four lines or more the last line may get a negative discount, or one above its
   price. What a seller's coupon gives depends on whether the basket ends with one of
   that seller's lines. A fixed coupon worth more than the basket makes the total negative.

10. Promotions. `maxDiscountPoisha` bounds the amount of a rule and not its parts: the lines of a
   quote are discounted by all of them, and a rule whose parts are cut gets their sum as its
   amount, above its cap or not. The funding was split before the cut, and is not what the
   lines gave; `promotion-funding-calculator.ts:38` says the shares always make the amount. Each
   rule of free shipping gives the whole fee, so two give it twice.
11. `services/rider-delivery.service.ts:90` says that an assignment is accepted atomically, with a
   lease. No caller creates leases and nothing records who accepted: two riders may both accept
   a parcel, a cancelled or an external one too, and one who read it before it was delivered
   takes it back to PICKED_UP.

12. `compensateInventory` (`features/inventory/services/inventory-service.ts:572-585`) takes the units
   of the reservation it is given off the balance its caller names. When that is another one,
   `reserved` drifts with nothing overwritten and the units look available again, while those of
   the reservation's own balance stay reserved with no live reservation. Lines 551-552 promise to
   restore the balances.
13. `prisma/schema.prisma:2004` makes `groupNumber` unique and gives an example with a part for the
   order (`SFG-20260922-XXXX-SEL01`). The code makes it of the day and the seller's place in
   the order (`server-checkout-calculation.service.ts:320-321`), so the second order of a UTC day meets
   the first one's number and is rolled back.

What holds nevertheless: even a lost update leaves no column negative; a live
reservation has always booked units that nobody has settled; and until two writers
overwrite each other, `reserved` is exactly the units booked and not settled less those
compensations took off for reservations of other balances, and every write is a step of the
book. A global sign-out or a detected reuse ends
whatever had begun before it, a code or a key acts once for requests that wait for the
answer, and money is lost or made only by a journal that overlaps another writer.

## 5. What is proved

All theorems hold for every value of the constants under the named assumptions of the
modules: `InventoryAssumption`, `FiniteRequests`, `OrderAssumption`, `CourierAssumption`,
`SessionAssumption`, `AccountAssumption`, `CartAssumption`, `CheckoutAssumption`,
`PaymentAssumption`, `PricingAssumption` and `PromotionAssumption`. They say that names are
distinct, that limits, prices and quantities are positive (no line is free), that
percentages, caps and fees are natural numbers, that baskets, quotes and campaigns are
sequences, that the opening stock suffices, that reservations of another balance are none of
this one, and that the requests of a run are finitely many, without which neither a sum nor
a limit means anything. TLC evaluates them in the runs.

In the modules of accounts, checkout and payments requests overlap, and the properties speak
of `past` (`before` in `Payments`), the requests that had been answered when one began.
Their invariants have one shape: what a request read is, as long as it has not written,
still true of every row whose writer had been answered when it began. Each proof first says
what a step may do to the rows of others (`OneMoves`, `RowsOwn` and the operators named
*Moves*), shows that every action does no more, and derives the invariants from that.

**Inventory** (`InventoryProofs`). `TypeCorrect`, `StockSafe`, `Backed`,
`Refinement`. The safety properties are not inductive: `IInv` adds what each
request knows at each step. `Unbooked`: a request that has not created its
reservation has booked nothing before its `Store`, and exactly its quantity after.
`Settles`: a settling request asks for exactly the units of its target, which has
left ACTIVE once the request is past `Mark`. `Current`: a request at `store` carries
a valid row, and as long as the version is the one it read, that row is current and
its target is unsettled. `Addressed` says which balance a request is about: one past `Mark` that
goes on to write the row is about this one, and settles a reservation of this one or, as a
compensation may, a foreign one. With `IInv`, a `Store` that overwrites nothing is exactly one
of the book's holds, sales, releases or movements, or its `Stray`, which takes off units no
reservation gives back and counts them; all other steps are stutters, and
a clobbering `Store` is `Overwrite`. `Conservation` is drawn from that refinement: a
step of the book moves `reserved` by what it moves in `Held` less `strayed`, and only
`Overwrite` does not.

**Orders** (`OrderProofs`). `OrderTypes`, `ItemsTrack`, `ParentMatches`, `OrderAdvances`,
`ItemsNeverDiverge`, `HistoryComplete`, `KeysStand`. The invariant is the conjunction of
types, `ItemsFollowGroups` and `ParentMatchesGroups`: the second gives the first its
cancellations (an order can only be cancelled while nothing has left), and `DerivedCases`
characterises the derived status once. `ItemsNeverDiverge` says that the guards of
`transitionOrderItemStatus` can never all hold: the source comments on items that "may
diverge for partial returns or individual cancellations", but under this service they move
with their group or not at all. `HistoryComplete` carries for each target that its rows form
a path from the first status to the current one, and that a step which changes the status
adds the row that prolongs it, cascades and derived statuses included. `KeysStand` needs
that a call with a known key changes nothing, and that a receipt is written together with
its row.

**Couriers** (`CourierProofs`). `CourierTypes`, `TravelOnce`, `DeliveriesAgree`,
`CourierRefines`, `ParentMatchesWithCouriers`. The invariant adds to that of the
orders the three parcel properties and what waiting calls know: a call about to
deliver or to write knows a shipment that exists, and a call that has not handed its
parcel over has no shipment. `CourierRefines` shows each step to be a step or
a stutter of `OrderLifecycle`, so every theorem about orders holds here too;
`ParentMatchesWithCouriers` is one drawn explicitly.

**Accounts** (`AccountProofs`). `AccountTypes`; of the sessions `EndedSignInsStay`,
`ForksOverlapAlways` and `SessionsWithinLimit`; of the codes and the password
`CodesWorkOnceAlways`, `ReplacedCodesStayDead`, `GuessesRunOutAlways`,
`OneCodePerCooldownAlways`, `OneChangePerPasswordAlways` and `OldCodesChangeNothing`. `AInv`
says who may have written the rows of which name. `VersionInv`: what was ended, and what a
sign-out past its new version is about to end, holds tokens of an older version only, so it
can never be verified again. `ForkInv`: a traded token is no session's current one, and a
rotation holds no token that was traded by someone answered before. `LimitInv` is stated for
every set of the sign-ins about to trim: *whichever* of them do, the sessions left exceed
the limit by no more than the sign-ins not yet at their trim. A weaker one, about all of
them or none, is not inductive, as one may die. It rests on `SinceInv`: sessions are ordered
by their last activity. `CodeInv`, `ReplaceInv`, `CooldownInv` and `GuessInv` say for their
property what the requests between a read and a write know. `PasswordInv`: neither the
current password nor an unused code has been proved by a change, and every reset code from
before the last change is used.

**Carts and checkout** (`CheckoutProofs`). `CheckoutTypes`, `LinesMeetAlways`,
`ConversionStandsAlways`. `ShopInv` adds to the types what each step has in memory. `LineInv`:
where a request saw no line, any line is of a request that it overlaps. `SaleInv`: a cart that
somebody holds is converted; a claim is of an active cart under its row lock; whoever is going
to overwrite a status has not seen the holder's order; and every cart that was turned back is
accounted for in `undone`.

**Keys, coupon and wallet** (`CheckoutProofs`). `KeysBuyOnceAlways`,
`CouponUseIsCountedAlways`, `MoneyIsKeptAlways`, `OverdraftOnlyTogetherAlways`. `CouponInv`:
the counter is the number of redemptions less that of reversals, and who is going to redeem
found the limit not reached by those answered before. `MoneyInv`: as long as no journal
overlapped a writer the wallet is the sum of the journals less that of the debits, and a
request between its read and its write remembers the balance, unless a writer it overlaps
has come between. A journal of its own never writes less than zero, nor does the reversal of
a debit: below zero leads only a debit that overlapped another writer, or the reversal of a
credit.

**Payments** (`PaymentProofs`). `EventsActOnceAlways`, `RefundsFit`, `StatusFollows`.
`PaymentInv`: a delivery past the duplicate check is the first of its event, those answered
before considered, and the commissions booked are those of the groups it has been through.
`RefundInv`: a refund that is about to be written fits with those answered before it was
asked for, and knows their sum when there are no others.

**Sums** (`SetLemmas`). `ReservedConservation`, `MoneyIsKept`, the refunds and the prices are about
sums over sets, which the models write with the folds of the community modules. Instead of an
induction, `MinimalSet` takes a smallest counterexample: the strict subsets of a finite set are
well-founded. `SumExists` shows that the recursive function behind a fold exists and
`TotalOf` that the fold is its value; `TotalAdds`, `TotalMoves`, `TotalEqual`, `TotalJoins`,
`TotalCounts`, `TotalTimes`, `TotalBounded` and `TotalByClass` are what the proofs use.

**Prices** (`PriceProofs`). `PricesAgree` and `PromotionsAreShared` are about every basket,
coupon, quote and campaign of any length; the runs enumerate small ones. From them
`DiscountsAlwaysAddUp` and `PromotionsAlwaysFit` state for `CheckoutSpec` the invariants of the
run. Integers are exact, as in the models.

What `PricesAgree` says of a coupon depends on whose it is. The discounts of the lines make up a
coupon of the platform, always, and a seller's coupon when the basket ends with a line of that
seller. When it ends with somebody else's, nobody takes the rest: his lines give the part of the
coupon that is their proportion of the basket, within half a poisha a line. That groups, lines
and order say the same amounts holds in all three cases.

For a coupon: a rounded quotient is within half of the exact one (`RoundedIsNear`), so a sum of
roundings is within half its number of lines of the exact sum (`RoundingsAddUp`,
`WithinAddUp`), and the last line, which takes the rest, carries the roundings of the others
(`LastTakesTheRest`, `SpreadsEvenly`). That the groups make up the order regroups a
sum over lines by seller (`GroupsMakeUp`, from `TotalByClass`). The discounts exceed the
prices of lines by at most the roundings (`ExcessIsSmall`): only the last line of a coupon worth no
more than the basket can.

For stacked rules: the parts of one rule are natural and add up to its amount before the cap
(`SpreadFacts`, `AllocatedFacts`; in a spread rounded down the last line never gets less
than nothing, `FloorsAddUp`), and cutting them to what is left keeps that (`FittedFacts`).
`Good` is the invariant of the turns: what was taken of a line and what is left make up its
price, and all that was applied is fine. `TurnKeeps` shows that a turn keeps it. The rules have
a last one, as the sort is a strict order (`BeforeOrders`, `LastIs`), so the fold over them
exists (`FoldExists`), and a smallest set of rules whose turns spoil the quote cannot
(`StackedIsGood`).

**Model-checked only.** `RequestsAnswered` (liveness under fairness), and the four statements of
section 4 that a run refutes.

## 6. Plan

1. *Done*: inventory with its book; order life cycle; couriers; sessions, codes and
   passwords; carts, checkout, coupons, wallet, pricing and promotions; payments and refunds.
2. *Done*: a theorem for every safety and action property of the runs, the prices of baskets and
   quotes of any length included.
3. An abstract token family that `Sessions` implements outside overlaps.
4. Settlements and B2B quotes, once they have callers that work.

## 7. Not modelled, and why

Catalog, CMS, reviews, questions, wishlists, dashboards, shipping rates and fraud scoring
are reads, single-row writes or calculations: their correctness is a matter of data and is
tested as such. Search indexing and workers have no processor at this commit. Settlements
batch every delivered group each time they are generated and compare nothing when they pay
out; no route reaches them, nor the reconciliation service itself, whose gateway events and
refunds are modelled because its tables are shared with the live callback. B2B quotes
address `b2bRfq` and `b2bQuote`, names the Prisma client does not have, and cannot run.
Registration and e-mail verification repeat the code life cycle of `Accounts`. Riders'
leases and milestones have no caller. Most of the repository's lines are pages, components,
route wrappers and generated descriptions of the API, which hold no state of their own.
Access control is taken as given: the models know the role of an actor. `PROJECT.json` lists
every component with its status, and every hazard met in reading, those without a property
included.
