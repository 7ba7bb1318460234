-------------------------- MODULE CourierDispatch ---------------------------
(***************************************************************************)
(* Shipments of the fulfillment groups of one order: CourierDispatchService *)
(* on top of the order life cycle.  A dispatch reads the group, books a    *)
(* consignment with the courier and only then opens the transaction that   *)
(* hands the group over and creates the shipment.  Tracking events,        *)
(* cancellations and doorstep verification check the shipment in one query *)
(* and write it in another; riders accept parcels the same way; courier    *)
(* callbacks write them unseen.  Meanwhile customers, sellers and          *)
(* administrators go on moving the order.                                  *)
(*                                                                         *)
(* A call is served once, so the set of calls bounds a run; a call sent    *)
(* again is another call.  A shipment is named by the call that books it.  *)
(***************************************************************************)
EXTENDS OrderLifecycle, Sequences

CONSTANTS
    Calls,       \* calls of the courier service and of the riders' service
    NoShipment,  \* no shipment
    Operations,  \* the operations calls may invoke
    Reported,    \* the statuses couriers and sellers report
    MayFail      \* whether the process may die between two steps of a call

Providers == {"IN_HOUSE", "PATHAO"}

ShipmentStatuses == {"PENDING", "LABEL_CREATED", "ASSIGNED", "PICKED_UP", "IN_TRANSIT",
                     "OUT_FOR_DELIVERY", "DELIVERED", "FAILED_DELIVERY",
                     "RETURNED_TO_SELLER", "CANCELLED"}

\* The idempotency keys the service makes up for its own transitions.
HandoverKey(p)  == <<p, "handover">>
DeliveredKey(s) == <<s, "delivered">>
AppendedKey(p)  == <<p, "appended">>

ASSUME CourierAssumption ==
    /\ \A p \in Calls : {HandoverKey(p), DeliveredKey(p), AppendedKey(p)} \subseteq Keys
    /\ NoShipment \notin Calls
    /\ Reported \subseteq ShipmentStatuses
    /\ MayFail \in BOOLEAN

VARIABLES
    shipments,  \* shipment rows
    events,     \* tracking events of each shipment, oldest first
    booked,     \* consignments couriers have accepted
    pc,         \* the step each call is about to take
    local       \* what each call has in memory

parcelVars  == <<shipments, events>>
callVars    == <<pc, local>>
courierVars == <<order, groups, items, trail, receipts, shipments, events, booked, pc, local>>

-----------------------------------------------------------------------------
Shipment == [status : ShipmentStatuses, group : Groups, provider : Providers]

\* The shipments that exist.
Created == DOMAIN shipments

Steps == {"idle", "book", "handover", "deliver", "write", "claim", "record", "done"}

Local == [group : Groups, provider : Providers, role : Roles \ {"CUSTOMER"},
          shipment : Calls \cup {NoShipment}, status : ShipmentStatuses]

\* A call starts with nothing of importance in memory.
Blank == [group |-> CHOOSE g \in Groups : TRUE, provider |-> "IN_HOUSE", role |-> "SYSTEM",
          shipment |-> NoShipment, status |-> "PENDING"]

CourierInit ==
    /\ Init
    /\ shipments = <<>>
    /\ events = <<>>
    /\ booked = {}
    /\ pc = [p \in Calls |-> "idle"]
    /\ local = [p \in Calls |-> Blank]

Idle(p, operation) == pc[p] = "idle" /\ operation \in Operations

Goto(p, step, l) ==
    /\ pc' = [pc EXCEPT ![p] = step]
    /\ local' = [local EXCEPT ![p] = l]

Answer(p) == Goto(p, "done", Blank)

-----------------------------------------------------------------------------
(* createConsignment                                                       *)

\* The group is read outside any transaction; an administrator may dispatch, too.
BeginDispatch(p) ==
    /\ Idle(p, "dispatch")
    /\ \E g \in Groups, provider \in Providers, role \in {"SELLER", "ADMIN"} :
          /\ groups[g] = "READY_FOR_PICKUP"
          /\ Goto(p, "book", [Blank EXCEPT !.group = g, !.provider = provider, !.role = role])
    /\ UNCHANGED <<orderVars, parcelVars, booked>>

\* The courier accepts the consignment, or an external one does not.
Book(p) ==
    /\ pc[p] = "book"
    /\ \/ /\ booked' = booked \cup {p}
          /\ Goto(p, "handover", local[p])
       \/ /\ local[p].provider # "IN_HOUSE"
          /\ Answer(p)
          /\ UNCHANGED booked
    /\ UNCHANGED <<orderVars, parcelVars>>

InitialStatus(provider) == IF provider = "IN_HOUSE" THEN "ASSIGNED" ELSE "LABEL_CREATED"

\* The doorstep code of the in-house fleet is kept in a second event.
InitialEvents(provider) ==
    IF provider = "IN_HOUSE" THEN <<"ASSIGNED", "ASSIGNED">> ELSE <<"LABEL_CREATED">>

\* Variant: the initial event is forgotten.
CreateShipmentSilently(p) ==
    LET row == [status |-> InitialStatus(local[p].provider), group |-> local[p].group,
                provider |-> local[p].provider]
    IN  /\ shipments' = [s \in Created \cup {p} |-> IF s = p THEN row ELSE shipments[s]]
        /\ UNCHANGED events

CreateShipment(p) ==
    LET row == [status |-> InitialStatus(local[p].provider), group |-> local[p].group,
                provider |-> local[p].provider]
    IN  /\ shipments' = [s \in Created \cup {p} |-> IF s = p THEN row ELSE shipments[s]]
        /\ events' = [s \in Created \cup {p} |->
                         IF s = p THEN InitialEvents(local[p].provider) ELSE events[s]]

\* Variant: what belongs to a transition is written whether or not it happens.
TogetherOrAlone(r, persist) ==
    /\ IF Fresh(r) /\ GroupMovable(r) THEN TransitionGroup(r) ELSE UNCHANGED orderVars
    /\ persist

\* A transition of a group that persists a change of shipments with it: both happen, or,
\* when the key is known or a guard refuses, neither does.
Together(r, persist) ==
    IF Fresh(r) /\ GroupMovable(r)
    THEN TransitionGroup(r) /\ persist
    ELSE UNCHANGED <<orderVars, parcelVars>>

HandoverRequest(p) ==
    [target |-> local[p].group, next |-> "HANDED_OVER_TO_COURIER",
     role |-> local[p].role, key |-> HandoverKey(p)]

Handover(p) ==
    /\ pc[p] = "handover"
    /\ Together(HandoverRequest(p), CreateShipment(p))
    /\ Answer(p)
    /\ UNCHANGED booked

-----------------------------------------------------------------------------
(* updateStatusWithEvent, and the transition a delivery brings with it     *)

AppendEvent(s, status) ==
    /\ shipments' = [shipments EXCEPT ![s].status = status]
    /\ events' = [events EXCEPT ![s] = Append(@, status)]

DeliveryRequest(s, role, key) ==
    [target |-> shipments[s].group, next |-> "DELIVERED", role |-> role, key |-> key]

\* Variant: the group is delivered, its shipment is not told.
DeliverGroup(s, role, key) == Together(DeliveryRequest(s, role, key), UNCHANGED parcelVars)

\* Variant: the status of the group is written past the transition service.
DeliverPastService(s, role, key) ==
    /\ groups' = [groups EXCEPT ![shipments[s].group] = "DELIVERED"]
    /\ AppendEvent(s, "DELIVERED")
    /\ UNCHANGED <<order, items, trail, receipts>>

Deliver(s, role, key) == Together(DeliveryRequest(s, role, key), AppendEvent(s, "DELIVERED"))

-----------------------------------------------------------------------------
(* handleCourierWebhook: nothing it reads can change before it writes, so  *)
(* one callback is one step.                                               *)

CourierWebhook(p) ==
    /\ Idle(p, "webhook")
    /\ \E s \in Created, status \in Reported :
          /\ shipments[s].provider = "PATHAO"
          /\ IF status = "DELIVERED"
             THEN Deliver(s, "SYSTEM", DeliveredKey(s))
             ELSE AppendEvent(s, status) /\ UNCHANGED orderVars
    /\ Answer(p)
    /\ UNCHANGED booked

-----------------------------------------------------------------------------
(* verifyInHouseDelivery                                                   *)

\* The doorstep code is right; a shipment already delivered is answered at once.
BeginVerify(p) ==
    /\ Idle(p, "verify")
    /\ \E s \in Created :
          /\ shipments[s].provider = "IN_HOUSE"
          /\ shipments[s].status # "DELIVERED"
          /\ Goto(p, "deliver", [Blank EXCEPT !.shipment = s])
    /\ UNCHANGED <<orderVars, parcelVars, booked>>

VerifyDelivery(p) ==
    /\ pc[p] = "deliver"
    /\ Deliver(local[p].shipment, "SYSTEM", DeliveredKey(local[p].shipment))
    /\ Answer(p)
    /\ UNCHANGED booked

-----------------------------------------------------------------------------
(* appendTrackingEvent and cancelConsignment                               *)

BeginAppend(p) ==
    /\ Idle(p, "append")
    /\ \E s \in Created, status \in Reported, role \in {"SELLER", "ADMIN"} :
          /\ shipments[s].status = "DELIVERED" => status = "DELIVERED"
          /\ shipments[s].status # "CANCELLED"
          /\ Goto(p, "write",
                  [Blank EXCEPT !.shipment = s, !.status = status, !.role = role])
    /\ UNCHANGED <<orderVars, parcelVars, booked>>

BeginCancel(p) ==
    /\ Idle(p, "cancel")
    /\ \E s \in Created :
          /\ shipments[s].status # "DELIVERED"
          /\ Goto(p, "write", [Blank EXCEPT !.shipment = s, !.status = "CANCELLED"])
    /\ UNCHANGED <<orderVars, parcelVars, booked>>

WriteStatus(p) ==
    LET s == local[p].shipment
    IN  /\ pc[p] = "write"
        /\ IF local[p].status = "DELIVERED"
           THEN Deliver(s, local[p].role, AppendedKey(p))
           ELSE AppendEvent(s, local[p].status) /\ UNCHANGED orderVars
        /\ Answer(p)
        /\ UNCHANGED booked

-----------------------------------------------------------------------------
(* acceptAssignment of RiderDeliveryService, over the same shipments       *)

\* No caller ever creates a lease, so the policy lets any rider claim any parcel; a
\* cancelled or external one is a parcel, too.
BeginAccept(p) ==
    /\ Idle(p, "accept")
    /\ \E s \in Created :
          /\ shipments[s].status \notin {"OUT_FOR_DELIVERY", "DELIVERED"}
          /\ Goto(p, "claim", [Blank EXCEPT !.shipment = s])
    /\ UNCHANGED <<orderVars, parcelVars, booked>>

\* The status and its event are two queries, in no transaction.
ClaimParcel(p) ==
    /\ pc[p] = "claim"
    /\ shipments' = [shipments EXCEPT ![local[p].shipment].status = "PICKED_UP"]
    /\ Goto(p, "record", local[p])
    /\ UNCHANGED <<orderVars, events, booked>>

RecordClaim(p) ==
    /\ pc[p] = "record"
    /\ events' = [events EXCEPT ![local[p].shipment] = Append(@, "PICKED_UP")]
    /\ Answer(p)
    /\ UNCHANGED <<orderVars, shipments, booked>>

-----------------------------------------------------------------------------
\* The process dies between two steps of a call.
Fail(p) ==
    /\ MayFail
    /\ pc[p] \notin {"idle", "done"}
    /\ Answer(p)
    /\ UNCHANGED <<orderVars, parcelVars, booked>>

\* What everybody but the courier service sends, under no key of the service.
Manual == {r \in Sent : r.role # "SYSTEM" /\ r.key = NoKey}

MoveOrder ==
    /\ \E r \in Manual : TransitionOrder(r) \/ TransitionGroup(r)
    /\ UNCHANGED <<parcelVars, booked, callVars>>

CourierStep(p) ==
    \/ BeginDispatch(p)
    \/ Book(p)
    \/ Handover(p)
    \/ CourierWebhook(p)
    \/ BeginVerify(p)
    \/ VerifyDelivery(p)
    \/ BeginAppend(p)
    \/ BeginCancel(p)
    \/ WriteStatus(p)
    \/ BeginAccept(p)
    \/ ClaimParcel(p)
    \/ RecordClaim(p)
    \/ Fail(p)

CourierNext == MoveOrder \/ \E p \in Calls : CourierStep(p)

CourierSpec == CourierInit /\ [][CourierNext]_courierVars

-----------------------------------------------------------------------------
(* Properties                                                              *)

\* The types of the variables the courier service adds.
CourierTypeOK ==
    /\ Created \subseteq Calls
    /\ shipments \in [Created -> Shipment]
    /\ events \in [Created -> Seq(ShipmentStatuses)]
    /\ booked \subseteq Calls
    /\ pc \in [Calls -> Steps]
    /\ local \in [Calls -> Local]

\* Two dispatches of a group, a dispatch racing the seller's own hand-over or the
\* cancellation of the order: a group never has two shipments, and one that has a
\* shipment has left, so that no parcel travels for a group that was cancelled.
ParcelsTravelOnce ==
    \A s \in Created :
        /\ groups[shipments[s].group] \in Departed
        /\ \A t \in Created : shipments[t].group = shipments[s].group => t = s

Deliveries(s) == {n \in DOMAIN events[s] : events[s][n] = "DELIVERED"}

\* The group and the shipment are delivered together, and once: whatever callbacks and
\* verifications come again or late, a group is delivered exactly when one event of one
\* shipment of it says so, and no other event ever says it again.
DeliveredTogether ==
    /\ \A s \in Created : \A n, m \in Deliveries(s) : n = m
    /\ \A g \in Groups :
          groups[g] = "DELIVERED"
          <=> \E s \in Created : shipments[s].group = g /\ Deliveries(s) # {}

\* Couriers, dispatches and reports only ever take steps of the order life cycle.
ImplementsOrders == Spec

-----------------------------------------------------------------------------
(* What the code says and does not keep.                                   *)

\* "Cannot alter or regress a shipment that is already DELIVERED."
DeliveredIsFinal ==
    [][\A s \in Created : shipments[s].status = "DELIVERED" =>
          shipments'[s].status = "DELIVERED"]_courierVars
=============================================================================
