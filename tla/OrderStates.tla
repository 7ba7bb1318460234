---------------------------- MODULE OrderStates -----------------------------
(***************************************************************************)
(* The status maps of orders, fulfillment groups and order items, who may  *)
(* take which transition, and the parent status derived from the groups.   *)
(***************************************************************************)

NoStatus == "NONE"

OrderTransitions ==
    [PENDING_PAYMENT   |-> {"PROCESSING", "CANCELLED"},
     PROCESSING        |-> {"CONFIRMED", "CANCELLED"},
     CONFIRMED         |-> {"PARTIALLY_SHIPPED", "SHIPPED", "CANCELLED"},
     PARTIALLY_SHIPPED |-> {"SHIPPED", "DELIVERED", "CANCELLED"},
     SHIPPED           |-> {"DELIVERED"},
     DELIVERED         |-> {"COMPLETED", "REFUNDED"},
     COMPLETED         |-> {"REFUNDED"},
     CANCELLED         |-> {},
     REFUNDED          |-> {}]

OrderStatuses == {"PENDING_PAYMENT", "PROCESSING", "CONFIRMED", "PARTIALLY_SHIPPED",
                  "SHIPPED", "DELIVERED", "COMPLETED", "CANCELLED", "REFUNDED"}

GroupTransitions ==
    [PENDING                |-> {"ACCEPTED", "REJECTED"},
     ACCEPTED               |-> {"PACKING", "CANCELLED"},
     PACKING                |-> {"READY_FOR_PICKUP", "CANCELLED"},
     READY_FOR_PICKUP       |-> {"HANDED_OVER_TO_COURIER", "CANCELLED"},
     HANDED_OVER_TO_COURIER |-> {"IN_TRANSIT", "DELIVERED"},
     IN_TRANSIT             |-> {"DELIVERED"},
     DELIVERED              |-> {},
     CANCELLED              |-> {},
     REJECTED               |-> {}]

GroupStatuses == {"PENDING", "ACCEPTED", "PACKING", "READY_FOR_PICKUP",
                  "HANDED_OVER_TO_COURIER", "IN_TRANSIT", "DELIVERED", "CANCELLED", "REJECTED"}

ItemTransitions ==
    [PENDING    |-> {"CONFIRMED", "CANCELLED"},
     CONFIRMED  |-> {"PROCESSING", "CANCELLED"},
     PROCESSING |-> {"SHIPPED", "CANCELLED"},
     SHIPPED    |-> {"DELIVERED"},
     DELIVERED  |-> {"RETURNED"},
     CANCELLED  |-> {},
     RETURNED   |-> {}]

ItemStatuses == {"PENDING", "CONFIRMED", "PROCESSING", "SHIPPED", "DELIVERED",
                 "CANCELLED", "RETURNED"}

Roles == {"CUSTOMER", "SELLER", "ADMIN", "SYSTEM"}

\* Who may take each transition of an order.
OrderActors(from, to) ==
    CASE to = "CANCELLED" -> IF from \in {"PENDING_PAYMENT", "PROCESSING"}
                             THEN {"CUSTOMER", "ADMIN"} ELSE {"ADMIN"}
      [] to \in {"CONFIRMED", "COMPLETED"} -> {"ADMIN", "SYSTEM"}
      [] to = "REFUNDED" -> {"ADMIN"}
      [] OTHER -> {"SYSTEM"}

\* Who may take each transition of a fulfillment group.
GroupActors(from, to) ==
    CASE to = "CANCELLED" -> {"SELLER", "ADMIN"}
      [] to = "HANDED_OVER_TO_COURIER" -> {"SELLER", "SYSTEM"}
      [] to \in {"IN_TRANSIT", "DELIVERED"} -> {"SYSTEM"}
      [] OTHER -> {"SELLER"}

\* The three validate functions.
ValidOrderMove(from, to, role) == to \in OrderTransitions[from] /\ role \in OrderActors(from, to)
ValidGroupMove(from, to, role) == to \in GroupTransitions[from] /\ role \in GroupActors(from, to)
ValidItemMove(from, to) == to \in ItemTransitions[from]

-----------------------------------------------------------------------------
(* deriveOrderStatusFromFulfillmentGroups: every() and some() only see the *)
(* set of statuses the groups have between them.                           *)

Withdrawn  == {"CANCELLED", "REJECTED"}
OnTheRoad  == {"HANDED_OVER_TO_COURIER", "IN_TRANSIT"}
Departed   == OnTheRoad \cup {"DELIVERED"}

\* Variant: any mix of delivered and active groups is a partial shipment.
DerivedMixed(statuses) ==
    IF statuses \subseteq {"DELIVERED"} THEN "DELIVERED"
    ELSE IF statuses \subseteq Withdrawn THEN "CANCELLED"
    ELSE IF "DELIVERED" \in statuses
         THEN IF statuses \subseteq {"DELIVERED"} \cup Withdrawn THEN "DELIVERED"
              ELSE "PARTIALLY_SHIPPED"
    ELSE IF statuses \cap OnTheRoad # {}
         THEN IF statuses \subseteq Departed \cup Withdrawn THEN "SHIPPED"
              ELSE "PARTIALLY_SHIPPED"
    ELSE NoStatus

Derived(statuses) ==
    IF statuses \subseteq {"DELIVERED"} THEN "DELIVERED"
    ELSE IF statuses \subseteq Withdrawn THEN "CANCELLED"
    ELSE IF "DELIVERED" \in statuses /\ ~(statuses \subseteq Departed \cup Withdrawn)
         THEN "PARTIALLY_SHIPPED"
    ELSE IF "DELIVERED" \in statuses /\ statuses \subseteq {"DELIVERED"} \cup Withdrawn
         THEN "DELIVERED"
    ELSE IF statuses \cap OnTheRoad # {}
         THEN IF statuses \subseteq Departed \cup Withdrawn THEN "SHIPPED"
              ELSE "PARTIALLY_SHIPPED"
    ELSE NoStatus

DeriveOrderStatus(statuses, current) ==
    IF statuses = {} \/ current \in {"CANCELLED", "REFUNDED", "COMPLETED"}
    THEN NoStatus ELSE Derived(statuses)
=============================================================================
