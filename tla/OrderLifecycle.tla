--------------------------- MODULE OrderLifecycle ---------------------------
(***************************************************************************)
(* One parent order, the fulfillment groups of its sellers and their       *)
(* items, under OrderTransitionService.  Each transition runs in a         *)
(* Serializable transaction that is retried when it fails to serialize, so *)
(* a transition is one atomic step; what varies is the order in which      *)
(* customers, sellers, administrators and couriers send theirs, and which  *)
(* of them are sent again with the same idempotency key.                   *)
(***************************************************************************)
EXTENDS OrderStates, Naturals

CONSTANTS
    Groups,    \* fulfillment groups of the order
    Items,     \* order items
    GroupOf,   \* the fulfillment group of each item
    Keys,      \* idempotency keys callers use
    NoKey      \* a request without an idempotency key

ASSUME OrderAssumption ==
    /\ Groups # {}
    /\ "order" \notin Groups \cup Items
    /\ Groups \cap Items = {}
    /\ GroupOf \in [Items -> Groups]
    /\ NoKey \notin Keys

VARIABLES
    order,     \* status of the parent order
    groups,    \* status of each fulfillment group
    items,     \* status of each item
    trail,     \* status history rows, each written with its outbox event
    receipts   \* idempotency receipts

orderVars == <<order, groups, items, trail, receipts>>

Targets == {"order"} \cup Groups \cup Items

Statuses == OrderStatuses \cup GroupStatuses \cup ItemStatuses

\* A request: what it wants of which entity, who sends it, and under which key.
\* Each role stands for one actor who holds it.
Request == [target : Targets, next : Statuses, role : Roles, key : Keys \cup {NoKey}]

\* A history row.
Row(target, from, to) == [target |-> target, from |-> from, to |-> to]

Init ==
    /\ order \in {"PENDING_PAYMENT", "PROCESSING"}
    /\ groups = [g \in Groups |-> "PENDING"]
    /\ items = [i \in Items |-> "PENDING"]
    /\ trail = {Row("order", NoStatus, order)}
    /\ receipts = {}

-----------------------------------------------------------------------------
(* Idempotency receipts.                                                   *)

\* A receipt is found by target, actor and key, whatever status was asked for.
Receipts(r) == {s \in receipts : s.target = r.target /\ s.role = r.role /\ s.key = r.key}

\* Variant: a receipt only answers the very same request.
FreshRequest(r) == r \notin receipts

\* Nothing was done under this key before.
Fresh(r) == Receipts(r) = {}

\* A known key answers with the stored result, or with a conflict when it names another
\* input.  Neither changes anything, and neither does a request that its guards refuse
\* or whose attempts all fail to serialize.

SaveReceipt(r) == receipts' = receipts \cup (IF r.key = NoKey THEN {} ELSE {r})

-----------------------------------------------------------------------------
(* transitionOrderStatus                                                   *)

\* Variant: only untouched items are cancelled.
CancellableUntouched == {"PENDING"}

\* Groups a cancellation withdraws, and items it cancels.
Withdrawable == {"PENDING", "ACCEPTED"}
Cancellable  == {"PENDING", "CONFIRMED", "PROCESSING"}

CancelGroups ==
    groups' = [g \in Groups |-> IF groups[g] \in Withdrawable THEN "CANCELLED" ELSE groups[g]]

CancelItems ==
    items' = [i \in Items |-> IF items[i] \in Cancellable THEN "CANCELLED" ELSE items[i]]

\* Variant: a cancellation does not look at the groups.
OrderMovableUnguarded(r) ==
    /\ r.target = "order"
    /\ r.next \in OrderStatuses \ {"COMPLETED", "REFUNDED"}
    /\ ValidOrderMove(order, r.next, r.role)

\* Completion and refunds are refused; a cancellation needs every group unpacked.
OrderMovable(r) ==
    /\ r.target = "order"
    /\ r.next \in OrderStatuses \ {"COMPLETED", "REFUNDED"}
    /\ ValidOrderMove(order, r.next, r.role)
    /\ r.next = "CANCELLED" => \A g \in Groups : groups[g] \in Withdrawable \cup Withdrawn

\* Variant: the groups a cancellation withdraws get no history row.
TransitionOrderUnrecorded(r) ==
    /\ Fresh(r)
    /\ OrderMovable(r)
    /\ order' = r.next
    /\ IF r.next = "CANCELLED"
       THEN CancelGroups /\ CancelItems
       ELSE UNCHANGED <<groups, items>>
    /\ trail' = trail \cup {Row("order", order, r.next)}
    /\ SaveReceipt(r)

TransitionOrder(r) ==
    /\ Fresh(r)
    /\ OrderMovable(r)
    /\ order' = r.next
    /\ IF r.next = "CANCELLED"
       THEN CancelGroups /\ CancelItems
       ELSE UNCHANGED <<groups, items>>
    /\ trail' = trail \cup {Row("order", order, r.next)}
                      \cup {Row(g, groups[g], groups'[g]) : g \in {h \in Groups : groups'[h] # groups[h]}}
    /\ SaveReceipt(r)

-----------------------------------------------------------------------------
(* transitionFulfillmentGroupStatus                                        *)

\* Statuses of the parent in which nothing below it moves.
Frozen == {"PENDING_PAYMENT", "CANCELLED", "COMPLETED", "REFUNDED"}

\* The item status a group status brings with it.
ItemStatus(groupStatus) ==
    CASE groupStatus = "ACCEPTED"               -> "CONFIRMED"
      [] groupStatus = "PACKING"                -> "PROCESSING"
      [] groupStatus = "HANDED_OVER_TO_COURIER" -> "SHIPPED"
      [] groupStatus = "DELIVERED"              -> "DELIVERED"
      [] groupStatus \in Withdrawn              -> "CANCELLED"
      [] OTHER                                  -> NoStatus

ItemsOf(g) == {i \in Items : GroupOf[i] = g}

\* One item that cannot follow its group aborts the transition of the group.
ItemsCanFollow(g, status) ==
    status = NoStatus
    \/ \A i \in ItemsOf(g) : items[i] = status \/ ValidItemMove(items[i], status)

\* Variant: a group status without an item status of its own is written all the same.
ItemsFollowAlways(g, status) ==
    items' = [i \in Items |-> IF i \in ItemsOf(g) THEN status ELSE items[i]]

ItemsFollow(g, status) ==
    items' = [i \in Items |-> IF i \in ItemsOf(g) /\ status # NoStatus
                              THEN status ELSE items[i]]

\* The parent status is recomputed from all groups and written when it differs.
FollowGroups(r) ==
    LET derived == DeriveOrderStatus({groups'[g] : g \in Groups}, order)
        moved   == derived \notin {NoStatus, order}
        row     == Row(r.target, groups[r.target], r.next)
    IN  /\ order' = IF moved THEN derived ELSE order
        /\ trail' = trail \cup {row} \cup (IF moved THEN {Row("order", order, derived)} ELSE {})

GroupMovable(r) ==
    /\ r.target \in Groups
    /\ order \notin Frozen
    /\ r.next \in GroupStatuses
    /\ ValidGroupMove(groups[r.target], r.next, r.role)
    /\ ItemsCanFollow(r.target, ItemStatus(r.next))

TransitionGroup(r) ==
    /\ Fresh(r)
    /\ GroupMovable(r)
    /\ groups' = [groups EXCEPT ![r.target] = r.next]
    /\ ItemsFollow(r.target, ItemStatus(r.next))
    /\ FollowGroups(r)
    /\ SaveReceipt(r)

-----------------------------------------------------------------------------
(* transitionOrderItemStatus                                               *)

\* The group statuses an item status must agree with.
GroupStates(itemStatus) ==
    CASE itemStatus = "CONFIRMED"  -> {"ACCEPTED"}
      [] itemStatus = "PROCESSING" -> {"PACKING", "READY_FOR_PICKUP"}
      [] itemStatus = "SHIPPED"    -> OnTheRoad
      [] itemStatus = "DELIVERED"  -> {"DELIVERED"}
      [] itemStatus = "CANCELLED"  -> Withdrawn
      [] OTHER                     -> {}

ItemMovable(r) ==
    /\ r.target \in Items
    /\ r.role \in {"ADMIN", "SYSTEM"}
    /\ order \notin Frozen
    /\ r.next \in ItemStatuses \ {"RETURNED"}
    /\ groups[GroupOf[r.target]] \in GroupStates(r.next)
    /\ ValidItemMove(items[r.target], r.next)

\* A refusal is a step that changes nothing: see OrderProofs for why there is no other.
TransitionItem(r) ==
    /\ IF Fresh(r) /\ ItemMovable(r)
       THEN /\ items' = [items EXCEPT ![r.target] = r.next]
            /\ trail' = trail \cup {Row(r.target, items[r.target], r.next)}
            /\ SaveReceipt(r)
       ELSE UNCHANGED <<items, trail, receipts>>
    /\ UNCHANGED <<order, groups>>

-----------------------------------------------------------------------------
(* What the routes and services of the repository send.                    *)

\* Nobody moves an order as SYSTEM; couriers report hand-overs and deliveries only.
Sent ==
    {r \in Request :
        /\ r.target = "order" => r.role # "SYSTEM"
        /\ r.target \in Groups =>
              /\ r.role # "CUSTOMER"
              /\ r.role = "SYSTEM" => r.next \in {"HANDED_OVER_TO_COURIER", "DELIVERED"}}

Next == \E r \in Sent : TransitionOrder(r) \/ TransitionGroup(r) \/ TransitionItem(r)

Spec == Init /\ [][Next]_orderVars

-----------------------------------------------------------------------------
(* Properties                                                              *)

\* The types of the variables.
TypeOK ==
    /\ order \in OrderStatuses
    /\ groups \in [Groups -> GroupStatuses]
    /\ items \in [Items -> ItemStatuses]
    /\ trail \subseteq [target : Targets, from : Statuses \cup {NoStatus}, to : Statuses]
    /\ receipts \subseteq {r \in Request : r.key # NoKey}

\* Where the items of a group stand while the group is in a status.
ItemUnder(groupStatus) ==
    CASE groupStatus = "PENDING"          -> "PENDING"
      [] groupStatus = "READY_FOR_PICKUP" -> "PROCESSING"
      [] groupStatus = "IN_TRANSIT"       -> "SHIPPED"
      [] OTHER                            -> ItemStatus(groupStatus)

\* Cancellations of the order, moves of the group and moves of single items never leave
\* an item in another stage than its group: the abort of an item that "cannot follow"
\* never strikes, and no item is shipped out of a cancelled group.
ItemsFollowGroups == \A i \in Items : items[i] = ItemUnder(groups[GroupOf[i]])

\* Whatever the order in which sellers, couriers and cancellations commit, the parent
\* says what its groups say: shipped, delivered or cancelled exactly when they are.
ParentMatchesGroups ==
    LET derived == Derived({groups[g] : g \in Groups})
    IN  IF derived = NoStatus
        THEN order \in {"PENDING_PAYMENT", "PROCESSING", "CONFIRMED"}
        ELSE order = derived

\* How far an order has come on its way to the customer.
Progress(status) ==
    CASE status = "PENDING_PAYMENT"   -> 0
      [] status = "PROCESSING"        -> 1
      [] status = "CONFIRMED"         -> 2
      [] status = "PARTIALLY_SHIPPED" -> 3
      [] status = "SHIPPED"           -> 4
      [] status = "DELIVERED"         -> 5
      [] OTHER                        -> 6

\* The derived status never takes an order back, and once a parcel has left the order is
\* never cancelled, although the maps would let an administrator do it.
OrderOnlyAdvances ==
    [][/\ order' # order => Progress(order) < Progress(order')
       /\ order' = "CANCELLED" => Progress(order) < 3 \/ order = "CANCELLED"]_order

\* The history rows of an entity, in whatever order they are read, replay to its status:
\* one row starts, each row but the last is continued by one other, the last is current.
Replays(target, first, now) ==
    LET rows == {row \in trail : row.target = target}
    IN  /\ \A a, b \in rows : a.from = b.from \/ a.to = b.to => a = b
        /\ \A a \in rows : a.from = first \/ \E b \in rows : b.to = a.from
        /\ \A a \in rows : a.to = now \/ \E b \in rows : b.from = a.to
        /\ now = first \/ \E a \in rows : a.to = now

\* The append-only history misses no transition of the order or of a group, those a
\* cancellation cascades to and those derived from groups included.
HistoryReplays ==
    /\ Replays("order", NoStatus, order)
    /\ \A g \in Groups : Replays(g, "PENDING", groups[g])

\* An idempotency key of an actor names one transition of a target for ever, and that
\* transition is in the history: a retry can neither repeat it nor be told another one.
KeysNameOneTransition ==
    /\ \A r, s \in receipts :
          r.target = s.target /\ r.role = s.role /\ r.key = s.key => r = s
    /\ \A r \in receipts : \E row \in trail : row.target = r.target /\ row.to = r.next

-----------------------------------------------------------------------------
(* What the documentation says and the code does not keep.                 *)

\* "These maps are the SINGLE SOURCE OF TRUTH for valid transitions."
OrderFollowsItsMap == [][order' # order => order' \in OrderTransitions[order]]_order
=============================================================================
