---------------------------- MODULE OrderProofs -----------------------------
(***************************************************************************)
(* Proofs about OrderLifecycle, for any number of groups and items: types, *)
(* the agreement of items with their groups and of the parent order with   *)
(* all groups, that an order only ever advances, that its history leads to *)
(* its status, and that a key names one transition.                        *)
(***************************************************************************)
EXTENDS OrderLifecycle, TLAPS

-----------------------------------------------------------------------------
(* The status the parent derives from its groups.                          *)

\* The statuses the groups of the order have between them.
GroupSet(gs) == {gs[g] : g \in Groups}

\* Derived gives one of four statuses or none; each says where the groups are.
LEMMA DerivedCases ==
    ASSUME NEW S, S \subseteq GroupStatuses, S # {}
    PROVE  /\ Derived(S) \in {NoStatus, "PARTIALLY_SHIPPED", "SHIPPED", "DELIVERED", "CANCELLED"}
           /\ Derived(S) = NoStatus => S \cap Departed = {}
           /\ Derived(S) = "CANCELLED" <=> S \subseteq Withdrawn
           /\ Derived(S) \in {"PARTIALLY_SHIPPED", "SHIPPED", "DELIVERED"}
                 => S \cap Departed # {}
           /\ Derived(S) \in {"SHIPPED", "DELIVERED"} => S \subseteq Departed \cup Withdrawn
           /\ Derived(S) = "DELIVERED" => S \cap OnTheRoad = {}
           /\ Derived(S) = "PARTIALLY_SHIPPED" => ~(S \subseteq Departed \cup Withdrawn)
  BY DEF Derived, NoStatus, GroupStatuses, Withdrawn, OnTheRoad, Departed

\* A group that left stays among those that left, one that is closed stays closed.
LEMMA GroupMoves ==
    ASSUME NEW from \in GroupStatuses, NEW to \in GroupTransitions[from]
    PROVE  /\ to \in GroupStatuses
           /\ from \in Departed => to \in Departed
           /\ from \notin Withdrawn /\ from # "DELIVERED"
  BY DEF GroupStatuses, GroupTransitions, Departed, OnTheRoad, Withdrawn

\* What each item status becomes when its group moves.
LEMMA ItemMoves ==
    ASSUME NEW from \in GroupStatuses, NEW to \in GroupTransitions[from]
    PROVE  ItemUnder(to) = IF ItemStatus(to) = NoStatus THEN ItemUnder(from) ELSE ItemStatus(to)
  BY DEF GroupStatuses, GroupTransitions, ItemUnder, ItemStatus, Withdrawn, NoStatus

LEMMA ItemStatusType ==
    ASSUME NEW s \in GroupStatuses
    PROVE  /\ ItemStatus(s) \in ItemStatuses \cup {NoStatus}
           /\ ItemUnder(s) \in ItemStatuses
           /\ s = "PENDING" => ItemUnder(s) = "PENDING"
           /\ s = "ACCEPTED" => ItemUnder(s) = "CONFIRMED"
           /\ s \in Withdrawn => ItemUnder(s) = "CANCELLED"
  BY DEF GroupStatuses, ItemStatus, ItemUnder, ItemStatuses, Withdrawn, NoStatus

\* An order that is not closed and moved by a caller other than SYSTEM is cancelled, or
\* confirmed while it is being processed.
LEMMA OrderMoves ==
    ASSUME NEW from \in OrderStatuses, NEW to \in OrderStatuses \ {"COMPLETED", "REFUNDED"},
           NEW role \in Roles \ {"SYSTEM"}, ValidOrderMove(from, to, role)
    PROVE  /\ from \in {"PENDING_PAYMENT", "PROCESSING", "CONFIRMED", "PARTIALLY_SHIPPED"}
           /\ to = "CANCELLED" \/ (to = "CONFIRMED" /\ from = "PROCESSING")
  BY DEF ValidOrderMove, OrderTransitions, OrderActors, OrderStatuses, Roles

-----------------------------------------------------------------------------
(* The inductive invariant.                                                *)

OInv == TypeOK /\ ItemsFollowGroups /\ ParentMatchesGroups

LEMMA OrderStep ==
    ASSUME OInv, NEW r \in Sent, TransitionOrder(r)
    PROVE  /\ OInv'
           /\ order' # order => Progress(order) < Progress(order')
           /\ order' = "CANCELLED" => Progress(order) < 3
  <1>1. /\ r.target = "order" /\ r.role \in Roles \ {"SYSTEM"}
        /\ r.next \in OrderStatuses \ {"COMPLETED", "REFUNDED"}
        /\ ValidOrderMove(order, r.next, r.role)
        /\ r \in Request
    BY DEF TransitionOrder, OrderMovable, Sent, Request
  <1>2. order \in OrderStatuses /\ groups \in [Groups -> GroupStatuses]
        /\ items \in [Items -> ItemStatuses]
    BY DEF OInv, TypeOK
  <1>3. /\ order \in {"PENDING_PAYMENT", "PROCESSING", "CONFIRMED", "PARTIALLY_SHIPPED"}
        /\ r.next = "CANCELLED" \/ (r.next = "CONFIRMED" /\ order = "PROCESSING")
        /\ order' = r.next
    BY <1>1, <1>2, OrderMoves DEF TransitionOrder
  <1>4. receipts' \subseteq {s \in Request : s.key # NoKey}
    BY <1>1 DEF TransitionOrder, SaveReceipt, OInv, TypeOK
  <1>5. /\ groups' \in [Groups -> GroupStatuses]
        /\ items' \in [Items -> ItemStatuses]
    <2>1. CASE r.next = "CANCELLED"
      BY <1>2, <2>1 DEF TransitionOrder, CancelGroups, CancelItems, GroupStatuses, ItemStatuses
    <2>2. CASE r.next # "CANCELLED"
      BY <1>2, <2>2 DEF TransitionOrder
    <2>3. QED
      BY <2>1, <2>2
  <1>6. trail' \subseteq [target : Targets, from : Statuses \cup {NoStatus}, to : Statuses]
    <2>1. Row("order", order, r.next)
             \in [target : Targets, from : Statuses \cup {NoStatus}, to : Statuses]
      BY <1>1, <1>2 DEF Row, Targets, Statuses
    <2>2. \A g \in Groups : Row(g, groups[g], groups'[g])
             \in [target : Targets, from : Statuses \cup {NoStatus}, to : Statuses]
      BY <1>2, <1>5 DEF Row, Targets, Statuses
    <2>3. QED
      BY <2>1, <2>2 DEF TransitionOrder, OInv, TypeOK
  <1>7. TypeOK'
    BY <1>1, <1>3, <1>4, <1>5, <1>6 DEF TypeOK
  <1>8. CASE r.next = "CANCELLED"
    <2>1. /\ \A g \in Groups : groups[g] \in Withdrawable \cup Withdrawn
          /\ \A g \in Groups : groups'[g] = IF groups[g] \in Withdrawable
                                            THEN "CANCELLED" ELSE groups[g]
          /\ \A i \in Items : items'[i] = IF items[i] \in Cancellable
                                          THEN "CANCELLED" ELSE items[i]
      BY <1>8 DEF TransitionOrder, OrderMovable, CancelGroups, CancelItems
    <2>2. \A g \in Groups : groups'[g] \in Withdrawn
      BY <2>1 DEF Withdrawable, Withdrawn
    <2>3. ItemsFollowGroups'
      <3> SUFFICES ASSUME NEW i \in Items
                   PROVE  items'[i] = ItemUnder(groups'[GroupOf[i]])
        BY DEF ItemsFollowGroups
      <3> DEFINE g == GroupOf[i]
      <3>1. g \in Groups /\ items[i] = ItemUnder(groups[g])
        BY OrderAssumption DEF OInv, ItemsFollowGroups
      <3>2. ItemUnder(groups'[g]) = "CANCELLED"
        BY <1>5, <2>2, <3>1, ItemStatusType
      <3>3. items[i] \in {"PENDING", "CONFIRMED", "CANCELLED"}
        BY <1>2, <2>1, <3>1, ItemStatusType DEF Withdrawable
      <3>4. QED
        BY <2>1, <3>1, <3>2, <3>3 DEF Cancellable
    <2>4. ParentMatchesGroups'
      <3>1. /\ GroupSet(groups') \subseteq Withdrawn /\ GroupSet(groups') # {}
            /\ GroupSet(groups') \subseteq GroupStatuses
        BY <1>5, <2>2, OrderAssumption DEF GroupSet
      <3>2. Derived(GroupSet(groups')) = "CANCELLED"
        BY <3>1, DerivedCases
      <3>3. QED
        BY <1>3, <1>8, <3>2 DEF ParentMatchesGroups, GroupSet, NoStatus
    <2>5. order # "PARTIALLY_SHIPPED"
      <3>1. GroupSet(groups) \cap Departed = {} /\ GroupSet(groups) # {}
            /\ GroupSet(groups) \subseteq GroupStatuses
        BY <1>2, <2>1, OrderAssumption
           DEF GroupSet, Departed, OnTheRoad, Withdrawable, Withdrawn
      <3>2. Derived(GroupSet(groups)) # "PARTIALLY_SHIPPED"
        BY <3>1, DerivedCases
      <3>3. QED
        BY <3>2 DEF OInv, ParentMatchesGroups, GroupSet
    <2>6. QED
      BY <1>3, <1>7, <1>8, <2>3, <2>4, <2>5 DEF OInv, Progress
  <1>9. CASE r.next = "CONFIRMED" /\ order = "PROCESSING"
    <2>1. groups' = groups /\ items' = items
      BY <1>9 DEF TransitionOrder
    <2>2. Derived(GroupSet(groups)) = NoStatus
      <3>1. GroupSet(groups) # {} /\ GroupSet(groups) \subseteq GroupStatuses
        BY <1>2, OrderAssumption DEF GroupSet
      <3>2. Derived(GroupSet(groups)) # "PROCESSING"
        BY <3>1, DerivedCases DEF NoStatus
      <3>3. QED
        BY <1>9, <3>2 DEF OInv, ParentMatchesGroups, GroupSet
    <2>3. ItemsFollowGroups' /\ ParentMatchesGroups'
      BY <1>3, <1>9, <2>1, <2>2 DEF OInv, ItemsFollowGroups, ParentMatchesGroups, GroupSet
    <2>4. QED
      BY <1>3, <1>7, <1>9, <2>3 DEF OInv, Progress
  <1>10. QED
    BY <1>3, <1>8, <1>9

LEMMA GroupStep ==
    ASSUME OInv, NEW r \in Sent, TransitionGroup(r)
    PROVE  /\ OInv'
           /\ order' # order => Progress(order) < Progress(order')
           /\ order' = "CANCELLED" => Progress(order) < 3
  <1> DEFINE g == r.target
             S == GroupSet(groups)
             T == GroupSet(groups')
             d == Derived(T)
  <1>1. /\ g \in Groups /\ r \in Request /\ r.next \in GroupStatuses
        /\ order \notin Frozen /\ r.next \in GroupTransitions[groups[g]]
        /\ groups' = [groups EXCEPT ![g] = r.next]
    BY DEF TransitionGroup, GroupMovable, ValidGroupMove, Sent
  <1>2. order \in OrderStatuses /\ groups \in [Groups -> GroupStatuses]
        /\ items \in [Items -> ItemStatuses]
    BY DEF OInv, TypeOK
  <1>3. groups' \in [Groups -> GroupStatuses] /\ groups'[g] = r.next
        /\ \A h \in Groups : h # g => groups'[h] = groups[h]
    BY <1>1, <1>2
  <1>4. /\ S # {} /\ S \subseteq GroupStatuses /\ T # {} /\ T \subseteq GroupStatuses
    BY <1>2, <1>3, OrderAssumption DEF GroupSet
  <1>5. /\ order' = IF d \notin {NoStatus, order} THEN d ELSE order
        /\ trail' \subseteq trail \cup {Row(g, groups[g], r.next), Row("order", order, d)}
        /\ d \notin {NoStatus, order} \/ trail' = trail \cup {Row(g, groups[g], r.next)}
    <2>1. DeriveOrderStatus(T, order) = d
      BY <1>1, <1>4 DEF DeriveOrderStatus, Frozen
    <2>2. QED
      BY <2>1 DEF TransitionGroup, FollowGroups, GroupSet
  <1>6. /\ S \cap Departed # {} => T \cap Departed # {}
        /\ S \subseteq Departed \cup Withdrawn => T \subseteq Departed \cup Withdrawn
        /\ ~(S \subseteq {"DELIVERED"} \cup Withdrawn)
    <2>1. /\ groups[g] \in Departed => r.next \in Departed
          /\ groups[g] \notin Withdrawn /\ groups[g] # "DELIVERED"
      BY <1>1, <1>2, GroupMoves
    <2>2. QED
      BY <1>1, <1>3, <2>1 DEF GroupSet
  <1>7. /\ Derived(S) = NoStatus => order \in {"PENDING_PAYMENT", "PROCESSING", "CONFIRMED"}
        /\ Derived(S) # NoStatus => order = Derived(S)
    BY DEF OInv, ParentMatchesGroups, GroupSet
  <1>8. /\ order \in {"PROCESSING", "CONFIRMED", "PARTIALLY_SHIPPED", "SHIPPED"}
        /\ order = "PARTIALLY_SHIPPED" => d \in {"PARTIALLY_SHIPPED", "SHIPPED", "DELIVERED"}
        /\ order = "SHIPPED" => d \in {"SHIPPED", "DELIVERED"}
    <2>1. Derived(S) # "DELIVERED"
      BY <1>4, <1>6, DerivedCases DEF Departed
    <2>2. order \in {"PROCESSING", "CONFIRMED", "PARTIALLY_SHIPPED", "SHIPPED"}
      BY <1>1, <1>4, <1>7, <2>1, DerivedCases DEF Frozen
    <2>3. order \in {"PARTIALLY_SHIPPED", "SHIPPED"} => d \notin {NoStatus, "CANCELLED"}
      <3>1. ASSUME order \in {"PARTIALLY_SHIPPED", "SHIPPED"}
            PROVE  T \cap Departed # {}
        BY <1>4, <1>6, <1>7, <3>1, DerivedCases
      <3>2. T \cap Departed # {} => ~(T \subseteq Withdrawn)
        BY DEF Departed, OnTheRoad, Withdrawn
      <3>3. QED
        BY <1>4, <3>1, <3>2, DerivedCases
    <2>4. order = "SHIPPED" => d # "PARTIALLY_SHIPPED"
      BY <1>4, <1>6, <1>7, DerivedCases
    <2>5. QED
      BY <1>4, <2>2, <2>3, <2>4, DerivedCases
  <1>9. d \in {NoStatus, "PARTIALLY_SHIPPED", "SHIPPED", "DELIVERED", "CANCELLED"}
    BY <1>4, DerivedCases
  <1>10. TypeOK'
    <2>1. items' \in [Items -> ItemStatuses]
      BY <1>1, <1>2, ItemStatusType DEF TransitionGroup, ItemsFollow
    <2>2. order' \in OrderStatuses
      BY <1>2, <1>5, <1>9 DEF OrderStatuses
    <2>3. Row(g, groups[g], r.next)
             \in [target : Targets, from : Statuses \cup {NoStatus}, to : Statuses]
      BY <1>1, <1>2 DEF Row, Targets, Statuses
    <2>4. d # NoStatus => Row("order", order, d)
             \in [target : Targets, from : Statuses \cup {NoStatus}, to : Statuses]
      BY <1>2, <1>9 DEF Row, Targets, Statuses, OrderStatuses
    <2>5. trail' \subseteq [target : Targets, from : Statuses \cup {NoStatus}, to : Statuses]
      BY <1>5, <2>3, <2>4 DEF OInv, TypeOK
    <2>6. receipts' \subseteq {s \in Request : s.key # NoKey}
      BY <1>1 DEF TransitionGroup, SaveReceipt, OInv, TypeOK
    <2>7. QED
      BY <1>3, <2>1, <2>2, <2>5, <2>6 DEF TypeOK
  <1>11. ItemsFollowGroups'
    <2> SUFFICES ASSUME NEW i \in Items
                 PROVE  items'[i] = ItemUnder(groups'[GroupOf[i]])
      BY DEF ItemsFollowGroups
    <2>1. GroupOf[i] \in Groups /\ items[i] = ItemUnder(groups[GroupOf[i]])
      BY OrderAssumption DEF OInv, ItemsFollowGroups
    <2>2. items'[i] = IF GroupOf[i] = g /\ ItemStatus(r.next) # NoStatus
                      THEN ItemStatus(r.next) ELSE items[i]
      BY DEF TransitionGroup, ItemsFollow, ItemsOf
    <2>3. CASE GroupOf[i] = g
      BY <1>1, <1>2, <1>3, <2>1, <2>2, <2>3, ItemMoves
    <2>4. CASE GroupOf[i] # g
      BY <1>3, <2>1, <2>2, <2>4
    <2>5. QED
      BY <2>3, <2>4
  <1>12. ParentMatchesGroups'
    <2>1. CASE d = NoStatus
      <3>1. order' = order /\ order \in {"PROCESSING", "CONFIRMED"}
        BY <1>5, <1>8, <2>1 DEF NoStatus
      <3>2. QED
        BY <2>1, <3>1 DEF ParentMatchesGroups, GroupSet
    <2>2. CASE d # NoStatus
      <3>1. order' = d
        BY <1>5, <2>2
      <3>2. QED
        BY <2>2, <3>1 DEF ParentMatchesGroups, GroupSet
    <2>3. QED
      BY <2>1, <2>2
  <1>13. /\ order' # order => Progress(order) < Progress(order')
         /\ order' = "CANCELLED" => Progress(order) < 3
    <2> HIDE DEF d
    <2>1. order' = order \/ (order' = d /\ d # NoStatus)
      BY <1>5
    <2>2. QED
      BY <1>8, <1>9, <2>1 DEF Progress, NoStatus
  <1>14. QED
    BY <1>10, <1>11, <1>12, <1>13 DEF OInv

\* While items follow their groups, no single item can be moved: the statuses an item
\* transition must agree with are those the item already has.
LEMMA ItemRefused ==
    ASSUME OInv, NEW r \in Sent
    PROVE  ~ItemMovable(r)
  <1> SUFFICES ASSUME ItemMovable(r) PROVE FALSE
    OBVIOUS
  <1> DEFINE s == groups[GroupOf[r.target]]
  <1>1. /\ r.target \in Items /\ r.next \in ItemStatuses
        /\ s \in GroupStates(r.next) /\ r.next \in ItemTransitions[items[r.target]]
    BY DEF ItemMovable, ValidItemMove
  <1>2. items[r.target] = ItemUnder(s) /\ s \in GroupStatuses
    BY <1>1, OrderAssumption DEF OInv, TypeOK, ItemsFollowGroups
  <1>3. ItemUnder(s) = r.next
    BY <1>1, <1>2 DEF GroupStates, ItemUnder, ItemStatus, ItemStatuses, OnTheRoad, Withdrawn
  <1>4. r.next \notin ItemTransitions[r.next]
    BY <1>1 DEF ItemTransitions, ItemStatuses
  <1>5. QED
    BY <1>1, <1>2, <1>3, <1>4

LEMMA InitOrder == Init => OInv
  <1> SUFFICES ASSUME Init PROVE OInv
    OBVIOUS
  <1>1. TypeOK
    BY DEF Init, TypeOK, OrderStatuses, GroupStatuses, ItemStatuses, Row, Targets, Statuses
  <1>2. ItemsFollowGroups
    BY OrderAssumption DEF Init, ItemsFollowGroups, ItemUnder
  <1>3. ParentMatchesGroups
    <2>1. GroupSet(groups) = {"PENDING"}
      BY OrderAssumption DEF Init, GroupSet
    <2>2. Derived({"PENDING"}) = NoStatus
      BY DEF Derived, Withdrawn, OnTheRoad, Departed
    <2>3. QED
      BY <2>1, <2>2 DEF Init, ParentMatchesGroups, GroupSet
  <1>4. QED
    BY <1>1, <1>2, <1>3 DEF OInv

\* Each step keeps the invariant and moves the parent, if at all, forward.
LEMMA NextOrder ==
    ASSUME OInv, [Next]_orderVars
    PROVE  /\ OInv'
           /\ order' # order => /\ Progress(order) < Progress(order')
                                /\ order' = "CANCELLED" => Progress(order) < 3
  <1>1. ASSUME NEW r \in Sent, TransitionOrder(r)
        PROVE  /\ OInv'
               /\ order' # order => /\ Progress(order) < Progress(order')
                                    /\ order' = "CANCELLED" => Progress(order) < 3
    BY <1>1, OrderStep
  <1>2. ASSUME NEW r \in Sent, TransitionGroup(r)
        PROVE  /\ OInv'
               /\ order' # order => /\ Progress(order) < Progress(order')
                                    /\ order' = "CANCELLED" => Progress(order) < 3
    BY <1>2, GroupStep
  <1>3. ASSUME NEW r \in Sent, TransitionItem(r) PROVE UNCHANGED orderVars
    BY <1>3, ItemRefused DEF TransitionItem, orderVars
  <1>4. ASSUME UNCHANGED orderVars PROVE OInv' /\ order' = order
    BY <1>4 DEF orderVars, OInv, TypeOK, ItemsFollowGroups, ParentMatchesGroups
  <1>5. QED
    BY <1>1, <1>2, <1>3, <1>4 DEF Next

LEMMA OrderInvariance == Spec => []OInv
  <1>1. OInv /\ [Next]_orderVars => OInv'
    BY NextOrder
  <1>2. QED
    BY InitOrder, <1>1, PTL DEF Spec

-----------------------------------------------------------------------------
(* The history of statuses, and the receipts.                              *)

\* How far a status is: what is sent only moves an order or a group up, and NoStatus is
\* before the first row of an order.
Stage ==
    [s \in Statuses \cup {NoStatus} |->
        CASE s = NoStatus                                       -> 0
          [] s \in {"PENDING_PAYMENT", "PENDING"}               -> 1
          [] s \in {"PROCESSING", "ACCEPTED"}                   -> 2
          [] s \in {"CONFIRMED", "PACKING"}                     -> 3
          [] s \in {"PARTIALLY_SHIPPED", "READY_FOR_PICKUP"}    -> 4
          [] s \in {"SHIPPED", "HANDED_OVER_TO_COURIER"}        -> 5
          [] s = "IN_TRANSIT"                                   -> 6
          [] s = "DELIVERED"                                    -> 7
          [] OTHER                                              -> 8]

\* Rows that lead from one status to another, as Replays says of a target, and each row
\* up, none beyond the last status.
Path(rows, first, now) ==
    /\ \A a, b \in rows : a.from = b.from \/ a.to = b.to => a = b
    /\ \A a \in rows : a.from = first \/ \E b \in rows : b.to = a.from
    /\ \A a \in rows : a.to = now \/ \E b \in rows : b.from = a.to
    /\ now = first \/ \E a \in rows : a.to = now
    /\ \A a \in rows : Stage[a.from] < Stage[a.to] /\ Stage[a.to] <= Stage[now]

RowsOf(target) == {row \in trail : row.target = target}

HistoryInv ==
    /\ Path(RowsOf("order"), NoStatus, order)
    /\ \A g \in Groups : Path(RowsOf(g), "PENDING", groups[g])

LEMMA StageType == Stage \in [Statuses \cup {NoStatus} -> Nat]
  BY DEF Stage

\* A row from the last status upwards is in nobody's way: nothing ever left that status, and
\* nothing ever reached the new one.
LEMMA PathGrows ==
    ASSUME NEW rows, NEW target, NEW first,
           NEW now \in Statuses \cup {NoStatus}, NEW next \in Statuses,
           \A a \in rows : a.from \in Statuses \cup {NoStatus} /\ a.to \in Statuses,
           Path(rows, first, now), Stage[now] < Stage[next]
    PROVE  Path(rows \cup {Row(target, now, next)}, first, next)
  <1> DEFINE new == Row(target, now, next)
  <1>1. new.from = now /\ new.to = next
    BY DEF Row
  <1>2. /\ Stage[now] \in Nat /\ Stage[next] \in Nat
        /\ \A a \in rows : Stage[a.from] \in Nat /\ Stage[a.to] \in Nat
    BY StageType
  <1>3. \A a \in rows : /\ a.from # now /\ a.to # next
                        /\ Stage[a.from] < Stage[a.to] /\ Stage[a.to] <= Stage[next]
    BY <1>2 DEF Path
  <1> HIDE DEF new
  <1>4. \A a, b \in rows \cup {new} : a.from = b.from \/ a.to = b.to => a = b
    BY <1>1, <1>3 DEF Path
  <1>5. \A a \in rows \cup {new} : a.from = first \/ \E b \in rows \cup {new} : b.to = a.from
    BY <1>1 DEF Path
  <1>6. \A a \in rows \cup {new} : a.to = next \/ \E b \in rows \cup {new} : b.from = a.to
    BY <1>1 DEF Path
  <1>7. \A a \in rows \cup {new} : Stage[a.from] < Stage[a.to] /\ Stage[a.to] <= Stage[next]
    BY <1>1, <1>2, <1>3
  <1>8. Path(rows \cup {new}, first, next)
    BY <1>1, <1>4, <1>5, <1>6, <1>7 DEF Path
  <1>9. QED
    BY <1>8 DEF new

\* A step of a target, written with its row or not at all.
Recorded(target, now, next) ==
    \/ next = now /\ RowsOf(target)' = RowsOf(target)
    \/ /\ Stage[now] < Stage[next]
       /\ RowsOf(target)' = RowsOf(target) \cup {Row(target, now, next)}

\* An order that moves moves up.
LEMMA OrderClimbs ==
    ASSUME NEW now \in OrderStatuses, NEW next \in OrderStatuses,
           Progress(now) < Progress(next), next = "CANCELLED" => Progress(now) < 3
    PROVE  Stage[now] < Stage[next]
  <1>1. \A s \in OrderStatuses : s \in Statuses \cup {NoStatus} /\ s # NoStatus
    BY DEF Statuses, OrderStatuses, NoStatus
  <1>2. /\ Stage["PENDING_PAYMENT"] = 1 /\ Stage["PROCESSING"] = 2 /\ Stage["CONFIRMED"] = 3
        /\ Stage["PARTIALLY_SHIPPED"] = 4 /\ Stage["SHIPPED"] = 5 /\ Stage["DELIVERED"] = 7
        /\ Stage["COMPLETED"] = 8 /\ Stage["CANCELLED"] = 8 /\ Stage["REFUNDED"] = 8
    BY <1>1 DEF Stage, OrderStatuses
  <1>3. QED
    BY <1>2 DEF Progress, OrderStatuses

LEMMA GroupClimbs ==
    /\ \A now \in GroupStatuses : \A next \in GroupTransitions[now] : Stage[now] < Stage[next]
    /\ \A now \in Withdrawable : Stage[now] < Stage["CANCELLED"]
  BY DEF Stage, Statuses, GroupStatuses, GroupTransitions, Withdrawable, NoStatus

\* Transitions of the order and of groups write a row for every status they change, and no
\* other.
LEMMA StepsAreRecorded ==
    ASSUME OInv, NEW r \in Sent, TransitionOrder(r) \/ TransitionGroup(r)
    PROVE  /\ Recorded("order", order, order')
           /\ \A g \in Groups : Recorded(g, groups[g], groups'[g])
  <1>1. /\ order \in OrderStatuses /\ groups \in [Groups -> GroupStatuses]
        /\ OInv' /\ order' \in OrderStatuses
        /\ order' # order => /\ Progress(order) < Progress(order')
                             /\ order' = "CANCELLED" => Progress(order) < 3
    BY OrderStep, GroupStep DEF OInv, TypeOK
  <1>2. order' # order => Stage[order] < Stage[order']
    BY <1>1, OrderClimbs
  <1>3. \A t, now, next : Row(t, now, next).target = t
    BY DEF Row
  <1>4. CASE TransitionOrder(r)
    <2> DEFINE moved == {Row(g, groups[g], groups'[g]) :
                            g \in {h \in Groups : groups'[h] # groups[h]}}
    <2>1. /\ order' = r.next
          /\ trail' = trail \cup {Row("order", order, r.next)} \cup moved
      BY <1>4 DEF TransitionOrder
    <2>2. order' # order
      <3>1. /\ order \in OrderStatuses /\ ValidOrderMove(order, r.next, r.role)
            /\ r.next \in OrderStatuses \ {"COMPLETED", "REFUNDED"}
            /\ r.role \in Roles \ {"SYSTEM"}
        BY <1>1, <1>4 DEF TransitionOrder, OrderMovable, Sent, Request
      <3>2. QED
        BY <2>1, <3>1, OrderMoves
    <2>3. \A g \in Groups : groups'[g] # groups[g] => Stage[groups[g]] < Stage[groups'[g]]
      BY <1>1, <1>4, GroupClimbs DEF TransitionOrder, CancelGroups
    <2>4. RowsOf("order")' = RowsOf("order") \cup {Row("order", order, order')}
      BY <1>3, <2>1, OrderAssumption DEF RowsOf
    <2>5. ASSUME NEW g \in Groups
          PROVE  Recorded(g, groups[g], groups'[g])
      <3>1. g # "order"
        BY OrderAssumption
      <3>2. CASE groups'[g] = groups[g]
        BY <1>3, <2>1, <3>1, <3>2 DEF RowsOf, Recorded
      <3>3. CASE groups'[g] # groups[g]
        <4>1. RowsOf(g)' = RowsOf(g) \cup {Row(g, groups[g], groups'[g])}
          BY <1>3, <2>1, <3>1, <3>3 DEF RowsOf
        <4>2. QED
          BY <2>3, <3>3, <4>1 DEF Recorded
      <3>4. QED
        BY <3>2, <3>3
    <2>6. QED
      BY <1>2, <2>2, <2>4, <2>5 DEF Recorded
  <1>5. CASE TransitionGroup(r)
    <2>1. /\ r.target \in Groups /\ r.target # "order"
          /\ r.next \in GroupTransitions[groups[r.target]]
          /\ groups' = [groups EXCEPT ![r.target] = r.next]
      BY <1>5, OrderAssumption DEF TransitionGroup, GroupMovable, ValidGroupMove
    <2>2. trail' = trail \cup {Row(r.target, groups[r.target], r.next)}
                         \cup (IF order' # order THEN {Row("order", order, order')} ELSE {})
      BY <1>5 DEF TransitionGroup, FollowGroups
    <2>3. Stage[groups[r.target]] < Stage[r.next]
      BY <1>1, <2>1, GroupClimbs
    <2>4. Recorded("order", order, order')
      BY <1>2, <1>3, <2>1, <2>2 DEF RowsOf, Recorded
    <2>5. ASSUME NEW g \in Groups
          PROVE  Recorded(g, groups[g], groups'[g])
      <3>1. g # "order"
        BY OrderAssumption
      <3>2. CASE g = r.target
        <4>1. RowsOf(g)' = RowsOf(g) \cup {Row(g, groups[g], r.next)}
          BY <1>3, <2>2, <3>1, <3>2 DEF RowsOf
        <4>2. QED
          BY <1>1, <2>1, <2>3, <3>2, <4>1 DEF Recorded
      <3>3. CASE g # r.target
        <4>1. RowsOf(g)' = RowsOf(g)
          BY <1>3, <2>2, <3>1, <3>3 DEF RowsOf
        <4>2. QED
          BY <1>1, <2>1, <3>3, <4>1 DEF Recorded
      <3>4. QED
        BY <3>2, <3>3
    <2>6. QED
      BY <2>4, <2>5
  <1>6. QED
    BY <1>4, <1>5

LEMMA NextHistory ==
    ASSUME OInv, HistoryInv, [Next]_orderVars
    PROVE  HistoryInv'
  <1>1. /\ order \in OrderStatuses /\ groups \in [Groups -> GroupStatuses]
        /\ OInv' /\ order' \in OrderStatuses /\ groups' \in [Groups -> GroupStatuses]
        /\ \A t : \A a \in RowsOf(t) : a.from \in Statuses \cup {NoStatus} /\ a.to \in Statuses
    BY NextOrder DEF OInv, TypeOK, RowsOf
  <1>2. ASSUME NEW r \in Sent, TransitionOrder(r) \/ TransitionGroup(r)
        PROVE  HistoryInv'
    <2>1. /\ Recorded("order", order, order')
          /\ \A g \in Groups : Recorded(g, groups[g], groups'[g])
      BY <1>2, StepsAreRecorded
    <2>2. Path(RowsOf("order"), NoStatus, order)'
      <3>1. order \in Statuses \cup {NoStatus} /\ order' \in Statuses
        BY <1>1 DEF Statuses
      <3>2. QED
        BY <1>1, <2>1, <3>1, PathGrows DEF HistoryInv, Recorded
    <2>3. ASSUME NEW g \in Groups
          PROVE  Path(RowsOf(g), "PENDING", groups[g])'
      <3>1. groups[g] \in Statuses \cup {NoStatus} /\ groups'[g] \in Statuses
        BY <1>1 DEF Statuses
      <3>2. QED
        BY <1>1, <2>1, <3>1, PathGrows DEF HistoryInv, Recorded
    <2>4. QED
      BY <2>2, <2>3 DEF HistoryInv
  <1>3. ASSUME NEW r \in Sent, TransitionItem(r)
        PROVE  HistoryInv'
    BY <1>3, ItemRefused DEF TransitionItem, HistoryInv, RowsOf, Path
  <1>4. ASSUME UNCHANGED orderVars
        PROVE  HistoryInv'
    BY <1>4 DEF orderVars, HistoryInv, RowsOf, Path
  <1>5. QED
    BY <1>2, <1>3, <1>4 DEF Next

LEMMA InitHistory == Init => HistoryInv
  <1> SUFFICES ASSUME Init PROVE HistoryInv
    OBVIOUS
  <1>1. /\ RowsOf("order") = {Row("order", NoStatus, order)}
        /\ \A g \in Groups : RowsOf(g) = {}
    BY OrderAssumption DEF Init, RowsOf, Row
  <1>2. Stage[NoStatus] < Stage[order] /\ order # NoStatus
    BY DEF Init, Stage, Statuses, OrderStatuses, NoStatus
  <1>3. Path(RowsOf("order"), NoStatus, order)
    <2>1. Path({}, NoStatus, NoStatus) /\ order \in Statuses
      BY DEF Path, Init, Statuses, OrderStatuses
    <2>2. Path({} \cup {Row("order", NoStatus, order)}, NoStatus, order)
      BY <1>2, <2>1, PathGrows
    <2>3. QED
      BY <1>1, <2>2
  <1>4. \A g \in Groups : Path(RowsOf(g), "PENDING", groups[g])
    BY <1>1 DEF Init, Path
  <1>5. QED
    BY <1>3, <1>4 DEF HistoryInv

\* Every action that saves a receipt writes the row of what the receipt is for, and rows
\* and receipts are never removed.
LEMMA NextReceipts ==
    ASSUME OInv, KeysNameOneTransition, [Next]_orderVars
    PROVE  KeysNameOneTransition'
  <1>1. ASSUME NEW r \in Sent, TransitionOrder(r) \/ TransitionGroup(r)
        PROVE  KeysNameOneTransition'
    <2>1. /\ Fresh(r) /\ receipts' \subseteq receipts \cup {r}
          /\ trail \subseteq trail'
      BY <1>1 DEF TransitionOrder, TransitionGroup, FollowGroups, SaveReceipt
    <2>2. \E row \in trail' : row.target = r.target /\ row.to = r.next
      <3>1. CASE TransitionOrder(r)
        <4>1. Row("order", order, r.next) \in trail' /\ r.target = "order"
          BY <3>1 DEF TransitionOrder, OrderMovable
        <4>2. QED
          BY <4>1 DEF Row
      <3>2. CASE TransitionGroup(r)
        <4>1. Row(r.target, groups[r.target], r.next) \in trail'
          BY <3>2 DEF TransitionGroup, FollowGroups
        <4>2. QED
          BY <4>1 DEF Row
      <3>3. QED
        BY <1>1, <3>1, <3>2
    <2>3. QED
      BY <2>1, <2>2 DEF KeysNameOneTransition, Fresh, Receipts
  <1>2. ASSUME NEW r \in Sent, TransitionItem(r)
        PROVE  KeysNameOneTransition'
    BY <1>2, ItemRefused DEF TransitionItem, KeysNameOneTransition
  <1>3. ASSUME UNCHANGED orderVars
        PROVE  KeysNameOneTransition'
    BY <1>3 DEF orderVars, KeysNameOneTransition
  <1>4. QED
    BY <1>1, <1>2, <1>3 DEF Next

-----------------------------------------------------------------------------
(* The theorems.                                                           *)

\* Statuses, history rows and receipts keep their types, for any groups, items and keys.
THEOREM OrderTypes == Spec => []TypeOK
  BY OrderInvariance, PTL DEF OInv

\* No interleaving of cancellations, group moves and item moves separates an item from
\* the stage its group is in.
THEOREM ItemsTrack == Spec => []ItemsFollowGroups
  BY OrderInvariance, PTL DEF OInv

\* The parent status is always the one its groups imply.
THEOREM ParentMatches == Spec => []ParentMatchesGroups
  BY OrderInvariance, PTL DEF OInv

\* The parent only advances, and a cancelled order never had a parcel on the road.
THEOREM OrderAdvances == Spec => OrderOnlyAdvances
  <1>1. OInv /\ [Next]_orderVars
        => [/\ order' # order => Progress(order) < Progress(order')
            /\ order' = "CANCELLED" => Progress(order) < 3 \/ order = "CANCELLED"]_order
    BY NextOrder
  <1>2. QED
    BY OrderInvariance, <1>1, PTL DEF Spec, OrderOnlyAdvances

\* No request for a single item ever succeeds: items already stand where their group
\* allows them to, so individual cancellations and shipments are refused for ever.
THEOREM ItemsNeverDiverge ==
    Spec => [][\A r \in Sent : TransitionItem(r) => UNCHANGED orderVars]_orderVars
  <1>1. OInv /\ [Next]_orderVars
        => [\A r \in Sent : TransitionItem(r) => UNCHANGED orderVars]_orderVars
    BY ItemRefused DEF TransitionItem, orderVars
  <1>2. QED
    BY OrderInvariance, <1>1, PTL DEF Spec

\* The history of the order and of every group replays to its status, for any number of
\* groups and in whatever order their transitions, cascades and derivations commit.
THEOREM HistoryComplete == Spec => []HistoryReplays
  <1>1. HistoryInv => HistoryReplays
    BY DEF HistoryInv, HistoryReplays, Path, Replays, RowsOf
  <1>2. OInv /\ HistoryInv /\ [Next]_orderVars => HistoryInv'
    BY NextHistory
  <1>3. QED
    BY InitHistory, OrderInvariance, <1>1, <1>2, PTL DEF Spec

\* Whatever callers use a key for, it names one transition of a target for ever, and that
\* transition is in the history.
THEOREM KeysStand == Spec => []KeysNameOneTransition
  <1>1. Init => KeysNameOneTransition
    BY DEF Init, KeysNameOneTransition
  <1>2. OInv /\ KeysNameOneTransition /\ [Next]_orderVars => KeysNameOneTransition'
    BY NextReceipts
  <1>3. QED
    BY OrderInvariance, <1>1, <1>2, PTL DEF Spec
=============================================================================
