---------------------------- MODULE CourierProofs ----------------------------
(***************************************************************************)
(* Proofs about CourierDispatch, for any number of calls, groups and items *)
(* and any mix of operations: it implements the order life cycle, a group  *)
(* has at most one shipment, and group and shipment are delivered together. *)
(***************************************************************************)
EXTENDS CourierDispatch, OrderProofs

-----------------------------------------------------------------------------
(* The inductive invariant.                                                *)

\* The rows of the shipments, and what holds of them.
ParcelTypes ==
    /\ Created \subseteq Calls
    /\ shipments \in [Created -> Shipment]
    /\ events \in [Created -> Seq(ShipmentStatuses)]

ParcelInv == ParcelTypes /\ ParcelsTravelOnce /\ DeliveredTogether

\* The steps that write a shipment read before.
Writing == {"deliver", "write", "claim", "record"}

\* A call that is about to write a shipment has read one, and a call that has not yet
\* handed a parcel over has created none.
CallsReady ==
    \A p \in Calls :
        /\ pc[p] \in Writing => local[p].shipment \in Created
        /\ pc[p] \in {"idle", "book", "handover"} => p \notin Created

CallTypes ==
    /\ booked \subseteq Calls
    /\ pc \in [Calls -> Steps]
    /\ local \in [Calls -> Local]

CInv == OInv /\ ParcelInv /\ CallTypes /\ CallsReady

-----------------------------------------------------------------------------
(* What a transition of the order or of a group does to the groups.        *)

LEMMA OrderKeepsParcels ==
    ASSUME OInv, NEW r \in Sent, TransitionOrder(r), NEW g \in Groups
    PROVE  /\ groups[g] \in Departed => groups'[g] \in Departed
           /\ groups'[g] = "DELIVERED" <=> groups[g] = "DELIVERED"
  <1>1. CASE r.next = "CANCELLED"
    <2>1. groups'[g] = IF groups[g] \in Withdrawable THEN "CANCELLED" ELSE groups[g]
      BY <1>1 DEF TransitionOrder, CancelGroups
    <2>2. QED
      BY <2>1 DEF Withdrawable, Departed, OnTheRoad
  <1>2. CASE r.next # "CANCELLED"
    BY <1>2 DEF TransitionOrder
  <1>3. QED
    BY <1>1, <1>2

LEMMA GroupKeepsParcels ==
    ASSUME OInv, NEW r \in Sent, TransitionGroup(r)
    PROVE  /\ r.target \in Groups
           /\ groups' = [groups EXCEPT ![r.target] = r.next]
           /\ groups[r.target] # "DELIVERED"
           /\ r.next = "DELIVERED" => r.role = "SYSTEM" /\ groups[r.target] \in OnTheRoad
           /\ r.next = "HANDED_OVER_TO_COURIER" => groups[r.target] \notin Departed
           /\ \A g \in Groups : groups[g] \in Departed => groups'[g] \in Departed
           /\ \A g \in Groups : g # r.target => groups'[g] = groups[g]
           /\ groups'[r.target] = r.next
  <1>1. /\ r.target \in Groups
        /\ r.next \in GroupTransitions[groups[r.target]]
        /\ r.role \in GroupActors(groups[r.target], r.next)
        /\ groups' = [groups EXCEPT ![r.target] = r.next]
    BY DEF TransitionGroup, GroupMovable, ValidGroupMove
  <1>2. groups \in [Groups -> GroupStatuses]
    BY DEF OInv, TypeOK
  <1>3. groups[r.target] \in GroupStatuses
    BY <1>1, <1>2
  <1>4. groups[r.target] # "DELIVERED" /\ (groups[r.target] \in Departed => r.next \in Departed)
    BY <1>1, <1>3, GroupMoves
  <1>5. r.next = "DELIVERED" => r.role = "SYSTEM" /\ groups[r.target] \in OnTheRoad
    BY <1>1, <1>3 DEF GroupTransitions, GroupActors, GroupStatuses, OnTheRoad
  <1>6. r.next = "HANDED_OVER_TO_COURIER" => groups[r.target] \notin Departed
    BY <1>1, <1>3 DEF GroupTransitions, GroupStatuses, Departed, OnTheRoad
  <1>7. QED
    BY <1>1, <1>2, <1>4, <1>5, <1>6

\* Shipments that are left alone stay in order while groups that left stay away and no
\* group is delivered or undelivered.
LEMMA ParcelFrame ==
    ASSUME ParcelInv, UNCHANGED parcelVars,
           \A g \in Groups : /\ groups[g] \in Departed => groups'[g] \in Departed
                             /\ groups'[g] = "DELIVERED" <=> groups[g] = "DELIVERED"
    PROVE  ParcelInv' /\ Created' = Created
  <1>1. shipments' = shipments /\ events' = events
    BY DEF parcelVars
  <1>2. \A s \in Created : shipments[s].group \in Groups
    BY DEF ParcelInv, ParcelTypes, Shipment
  <1>3. Created' = Created /\ ParcelTypes'
    BY <1>1 DEF ParcelInv, ParcelTypes, Created
  <1>4. ParcelsTravelOnce'
    BY <1>1, <1>2, <1>3 DEF ParcelInv, ParcelsTravelOnce
  <1>5. \A s \in Created : Deliveries(s)' = Deliveries(s)
    BY <1>1 DEF Deliveries
  <1>6. DeliveredTogether'
    BY <1>1, <1>3, <1>5 DEF ParcelInv, DeliveredTogether
  <1>7. QED
    BY <1>3, <1>4, <1>6 DEF ParcelInv

-----------------------------------------------------------------------------
(* What a write of a shipment does to its events.                          *)

\* The event is added to one shipment, which counts as delivered if the event says so.
LEMMA EventAdded ==
    ASSUME ParcelTypes, NEW s \in Created, NEW status \in ShipmentStatuses,
           AppendEvent(s, status)
    PROVE  /\ ParcelTypes' /\ Created' = Created
           /\ \A t \in Created : shipments'[t].group = shipments[t].group
           /\ \A t \in Created \ {s} : Deliveries(t)' = Deliveries(t)
           /\ status # "DELIVERED" => Deliveries(s)' = Deliveries(s)
           /\ status = "DELIVERED" => Deliveries(s)' = Deliveries(s) \cup {Len(events[s]) + 1}
  <1>1. /\ shipments \in [Created -> Shipment]
        /\ events \in [Created -> Seq(ShipmentStatuses)]
        /\ shipments' = [shipments EXCEPT ![s].status = status]
        /\ events' = [events EXCEPT ![s] = Append(@, status)]
    BY DEF ParcelTypes, AppendEvent
  <1>2. DOMAIN shipments' = DOMAIN shipments
    BY <1>1
  <1>3. Created' = Created
    BY <1>2 DEF Created
  <1>4. /\ shipments' \in [Created -> Shipment]
        /\ \A t \in Created : shipments'[t].group = shipments[t].group
    BY <1>1 DEF Shipment
  <1>5. events[s] \in Seq(ShipmentStatuses)
    BY <1>1
  <1>6. /\ Append(events[s], status) \in Seq(ShipmentStatuses)
        /\ DOMAIN Append(events[s], status) = DOMAIN events[s] \cup {Len(events[s]) + 1}
        /\ \A n \in DOMAIN events[s] : Append(events[s], status)[n] = events[s][n]
        /\ Append(events[s], status)[Len(events[s]) + 1] = status
        /\ Len(events[s]) + 1 \notin DOMAIN events[s]
    BY <1>5
  <1>7. /\ events'[s] = Append(events[s], status)
        /\ \A t \in Created \ {s} : events'[t] = events[t]
        /\ events' \in [Created -> Seq(ShipmentStatuses)]
    BY <1>1, <1>6
  <1>8. \A t \in Created \ {s} : Deliveries(t)' = Deliveries(t)
    BY <1>7 DEF Deliveries
  <1>9. Deliveries(s)' = {n \in DOMAIN Append(events[s], status) :
                             Append(events[s], status)[n] = "DELIVERED"}
    BY <1>7 DEF Deliveries
  <1>10. /\ status # "DELIVERED" => Deliveries(s)' = Deliveries(s)
         /\ status = "DELIVERED" => Deliveries(s)' = Deliveries(s) \cup {Len(events[s]) + 1}
    BY <1>6, <1>9 DEF Deliveries
  <1>11. ParcelTypes'
    BY <1>3, <1>4, <1>7 DEF ParcelTypes
  <1>12. QED
    BY <1>3, <1>4, <1>8, <1>10, <1>11

\* What leaves the groups and the deliveries of every shipment alone keeps the parcels.
LEMMA SameDeliveries ==
    ASSUME ParcelInv, ParcelTypes', Created' = Created, groups' = groups,
           \A t \in Created : shipments'[t].group = shipments[t].group,
           \A t \in Created : Deliveries(t)' = Deliveries(t)
    PROVE  ParcelInv'
  <1>1. ParcelsTravelOnce'
    BY DEF ParcelInv, ParcelsTravelOnce
  <1>2. DeliveredTogether'
    BY DEF ParcelInv, DeliveredTogether
  <1>3. QED
    BY <1>1, <1>2 DEF ParcelInv

\* A status other than a delivery disturbs nothing, in whatever order it arrives.
LEMMA ReportKeepsParcels ==
    ASSUME ParcelInv, NEW s \in Created, NEW status \in ShipmentStatuses \ {"DELIVERED"},
           AppendEvent(s, status), UNCHANGED orderVars
    PROVE  ParcelInv' /\ Created' = Created
  <1>1. /\ ParcelTypes' /\ Created' = Created
        /\ \A t \in Created : shipments'[t].group = shipments[t].group
        /\ \A t \in Created : Deliveries(t)' = Deliveries(t)
    BY EventAdded DEF ParcelInv
  <1>2. groups' = groups
    BY DEF orderVars
  <1>3. QED
    BY <1>1, <1>2, SameDeliveries

-----------------------------------------------------------------------------
(* The transitions the courier service asks for are requests of the order. *)

LEMMA RequestSent ==
    ASSUME NEW g \in Groups, NEW role \in Roles \ {"CUSTOMER"}, NEW key \in Keys,
           NEW next \in {"HANDED_OVER_TO_COURIER", "DELIVERED"}
    PROVE  [target |-> g, next |-> next, role |-> role, key |-> key] \in Sent
  <1>1. [target |-> g, next |-> next, role |-> role, key |-> key] \in Request
    BY DEF Request, Targets, Statuses, GroupStatuses
  <1>2. g # "order"
    BY OrderAssumption
  <1>3. QED
    BY <1>1, <1>2 DEF Sent

LEMMA DeliverStep ==
    ASSUME OInv, ParcelInv, NEW s \in Created, NEW role \in Roles \ {"CUSTOMER"},
           NEW key \in Keys, Deliver(s, role, key)
    PROVE  OInv' /\ [Next]_orderVars /\ ParcelInv' /\ Created' = Created
  <1> DEFINE r == DeliveryRequest(s, role, key)
  <1>1. shipments[s].group \in Groups
    BY DEF ParcelInv, ParcelTypes, Shipment
  <1>2. /\ r \in Sent /\ r.target = shipments[s].group /\ r.next = "DELIVERED"
    BY <1>1, RequestSent DEF DeliveryRequest
  <1> HIDE DEF r
  <1>3. CASE TransitionGroup(r) /\ AppendEvent(s, "DELIVERED")
    <2>1. OInv' /\ [Next]_orderVars
      BY <1>2, <1>3, GroupStep DEF Next
    <2>2. /\ ParcelTypes' /\ Created' = Created
          /\ \A t \in Created : shipments'[t].group = shipments[t].group
          /\ \A t \in Created \ {s} : Deliveries(t)' = Deliveries(t)
          /\ Deliveries(s)' = Deliveries(s) \cup {Len(events[s]) + 1}
      BY <1>3, EventAdded DEF ParcelInv, ShipmentStatuses
    <2>3. /\ groups[shipments[s].group] # "DELIVERED"
          /\ groups'[shipments[s].group] = "DELIVERED"
          /\ \A g \in Groups : g # shipments[s].group => groups'[g] = groups[g]
          /\ \A g \in Groups : groups[g] \in Departed => groups'[g] \in Departed
      BY <1>2, <1>3, GroupKeepsParcels
    <2>4. ParcelsTravelOnce'
      <3>1. \A t \in Created : shipments[t].group \in Groups
        BY DEF ParcelInv, ParcelTypes, Shipment
      <3>2. QED
        BY <2>2, <2>3, <3>1 DEF ParcelInv, ParcelsTravelOnce
    <2>5. \A t \in Created : shipments[t].group = shipments[s].group => t = s
      BY DEF ParcelInv, ParcelsTravelOnce
    <2>6. Deliveries(s) = {}
      BY <1>1, <2>3 DEF ParcelInv, DeliveredTogether
    <2>7. DeliveredTogether'
      <3>1. ASSUME NEW t \in Created PROVE \A n, m \in Deliveries(t)' : n = m
        BY <2>2, <2>6 DEF ParcelInv, DeliveredTogether
      <3>2. ASSUME NEW g \in Groups
            PROVE  groups'[g] = "DELIVERED"
                   <=> \E t \in Created : shipments[t].group = g /\ Deliveries(t)' # {}
        <4>1. CASE g = shipments[s].group
          BY <2>2, <2>3, <4>1
        <4>2. CASE g # shipments[s].group
          BY <2>2, <2>3, <4>2 DEF ParcelInv, DeliveredTogether
        <4>3. QED
          BY <4>1, <4>2
      <3>3. QED
        BY <2>2, <3>1, <3>2 DEF DeliveredTogether
    <2>8. QED
      BY <2>1, <2>2, <2>4, <2>7 DEF ParcelInv
  <1>4. CASE UNCHANGED <<orderVars, parcelVars>>
    <2>1. OInv'
      BY <1>4, NextOrder
    <2>2. groups' = groups
      BY <1>4 DEF orderVars
    <2>3. QED
      BY <1>4, <2>1, <2>2, ParcelFrame
  <1>5. QED
    BY <1>3, <1>4 DEF Deliver, Together, r

-----------------------------------------------------------------------------
(* The steps of a call.                                                    *)

\* A call moves on: its own step and memory change, no other call notices.
LEMMA CallMoved ==
    ASSUME CallTypes, CallsReady, NEW p \in Calls, NEW step \in Steps, NEW l \in Local,
           Goto(p, step, l), booked' \subseteq Calls,
           Created \subseteq Created', Created' \subseteq Created \cup {p},
           step \in Writing => l.shipment \in Created,
           step \in {"book", "handover"} => p \notin Created',
           step # "idle", step = "done" \/ Created' = Created
    PROVE  CallTypes' /\ CallsReady'
  <1>1. /\ pc \in [Calls -> Steps] /\ local \in [Calls -> Local]
        /\ pc' = [pc EXCEPT ![p] = step] /\ local' = [local EXCEPT ![p] = l]
    BY DEF CallTypes, Goto
  <1>2. CallTypes'
    BY <1>1 DEF CallTypes
  <1>3. ASSUME NEW q \in Calls
        PROVE  /\ pc'[q] \in Writing => local'[q].shipment \in Created'
               /\ pc'[q] \in {"idle", "book", "handover"} => q \notin Created'
    <2>1. CASE q = p
      <3>1. pc'[p] = step /\ local'[p] = l
        BY <1>1
      <3>2. QED
        BY <2>1, <3>1
    <2>2. CASE q # p
      <3>1. pc'[q] = pc[q] /\ local'[q] = local[q]
        BY <1>1, <2>2
      <3>2. QED
        BY <2>2, <3>1 DEF CallsReady
    <2>3. QED
      BY <2>1, <2>2
  <1>4. QED
    BY <1>2, <1>3 DEF CallsReady

LEMMA BlankLocal == Blank \in Local
  BY OrderAssumption DEF Blank, Local, Providers, Roles, ShipmentStatuses

\* A call that is answered has nothing left to write.
LEMMA CallAnswered ==
    ASSUME CallTypes, CallsReady, NEW p \in Calls, Answer(p), booked' \subseteq Calls,
           Created \subseteq Created', Created' \subseteq Created \cup {p}
    PROVE  CallTypes' /\ CallsReady'
  <1>1. Goto(p, "done", Blank) /\ "done" \in Steps
    BY DEF Answer, Steps
  <1>2. QED
    BY <1>1, BlankLocal, CallMoved DEF Writing

\* A call that reads and remembers leaves the orders and the shipments alone.
LEMMA Remembered ==
    ASSUME CInv, UNCHANGED <<orderVars, parcelVars>>
    PROVE  OInv' /\ [Next]_orderVars /\ ParcelInv' /\ Created' = Created
  <1>1. UNCHANGED orderVars /\ UNCHANGED parcelVars
    OBVIOUS
  <1>2. OInv'
    BY <1>1, NextOrder DEF CInv
  <1>3. groups' = groups
    BY <1>1 DEF orderVars
  <1>4. ParcelInv' /\ Created' = Created
    BY <1>1, <1>3, ParcelFrame DEF CInv
  <1>5. QED
    BY <1>1, <1>2, <1>4

LEMMA BeginDispatchStep ==
    ASSUME CInv, NEW p \in Calls, BeginDispatch(p)
    PROVE  CInv' /\ [Next]_orderVars
  <1>1. OInv' /\ [Next]_orderVars /\ ParcelInv' /\ Created' = Created
    BY Remembered DEF BeginDispatch
  <1>2. PICK g \in Groups, provider \in Providers, role \in {"SELLER", "ADMIN"} :
           Goto(p, "book", [Blank EXCEPT !.group = g, !.provider = provider, !.role = role])
    BY DEF BeginDispatch
  <1> DEFINE l == [Blank EXCEPT !.group = g, !.provider = provider, !.role = role]
  <1>3. l \in Local
    BY BlankLocal DEF Local, Roles
  <1>4. pc[p] = "idle" /\ booked' = booked
    BY DEF BeginDispatch, Idle
  <1> HIDE DEF l
  <1>5. Goto(p, "book", l)
    BY <1>2 DEF l
  <1>6. p \notin Created' /\ booked' \subseteq Calls
    BY <1>1, <1>4 DEF CInv, CallsReady, CallTypes
  <1>7. CallTypes' /\ CallsReady'
    BY <1>1, <1>3, <1>5, <1>6, CallMoved DEF CInv, Steps, Writing
  <1>8. QED
    BY <1>1, <1>7 DEF CInv

LEMMA BookStep ==
    ASSUME CInv, NEW p \in Calls, Book(p)
    PROVE  CInv' /\ [Next]_orderVars
  <1>1. OInv' /\ [Next]_orderVars /\ ParcelInv' /\ Created' = Created
    BY Remembered DEF Book
  <1>2. p \notin Created /\ booked' \subseteq Calls /\ local[p] \in Local
    BY DEF Book, CInv, CallsReady, CallTypes
  <1>3. CASE Goto(p, "handover", local[p])
    <2>1. CallTypes' /\ CallsReady'
      BY <1>1, <1>2, <1>3, CallMoved DEF CInv, Steps, Writing
    <2>2. QED
      BY <1>1, <2>1 DEF CInv
  <1>4. CASE Answer(p)
    <2>1. CallTypes' /\ CallsReady'
      BY <1>1, <1>2, <1>4, CallAnswered DEF CInv
    <2>2. QED
      BY <1>1, <2>1 DEF CInv
  <1>5. QED
    BY <1>3, <1>4 DEF Book

\* The hand-over is where a second shipment, or one of a cancelled group, would appear.
LEMMA HandoverStep ==
    ASSUME CInv, NEW p \in Calls, Handover(p)
    PROVE  CInv' /\ [Next]_orderVars
  <1> DEFINE r == HandoverRequest(p)
  <1>1. /\ p \notin Created /\ local[p] \in Local /\ booked' \subseteq Calls
        /\ CallTypes /\ CallsReady
    BY DEF Handover, CInv, CallsReady, CallTypes
  <1>2. r \in Sent /\ r.target = local[p].group /\ r.next = "HANDED_OVER_TO_COURIER"
    <2>1. /\ local[p].group \in Groups /\ local[p].role \in Roles \ {"CUSTOMER"}
          /\ HandoverKey(p) \in Keys
      BY <1>1, CourierAssumption DEF Local
    <2>2. QED
      BY <2>1, RequestSent DEF HandoverRequest
  <1> HIDE DEF r
  <1>3. CASE TransitionGroup(r) /\ CreateShipment(p)
    <2>1. OInv' /\ [Next]_orderVars
      BY <1>2, <1>3, GroupStep DEF CInv, Next
    <2> DEFINE row == [status |-> InitialStatus(local[p].provider), group |-> local[p].group,
                       provider |-> local[p].provider]
    <2>2. /\ shipments' = [s \in Created \cup {p} |-> IF s = p THEN row ELSE shipments[s]]
          /\ events' = [s \in Created \cup {p} |->
                           IF s = p THEN InitialEvents(local[p].provider) ELSE events[s]]
      BY <1>3 DEF CreateShipment
    <2>3. row \in Shipment /\ row.group = local[p].group
      BY <1>1 DEF Shipment, Local, InitialStatus, ShipmentStatuses
    <2>4. /\ InitialEvents(local[p].provider) \in Seq(ShipmentStatuses)
          /\ \A n \in DOMAIN InitialEvents(local[p].provider) :
                InitialEvents(local[p].provider)[n] # "DELIVERED"
      BY DEF InitialEvents, ShipmentStatuses
    <2> HIDE DEF row
    <2>5. Created' = Created \cup {p}
      BY <2>2 DEF Created
    <2>6. /\ shipments'[p] = row /\ \A s \in Created : shipments'[s] = shipments[s]
          /\ events'[p] = InitialEvents(local[p].provider)
          /\ \A s \in Created : events'[s] = events[s]
      BY <1>1, <2>2
    <2>7. ParcelTypes'
      BY <2>2, <2>3, <2>4, <2>5 DEF CInv, ParcelInv, ParcelTypes
    <2>8. /\ groups[local[p].group] \notin Departed
          /\ groups[local[p].group] # "DELIVERED"
          /\ groups'[local[p].group] = "HANDED_OVER_TO_COURIER"
          /\ \A g \in Groups : g # local[p].group => groups'[g] = groups[g]
          /\ \A g \in Groups : groups[g] \in Departed => groups'[g] \in Departed
          /\ local[p].group \in Groups
      BY <1>2, <1>3, GroupKeepsParcels DEF CInv
    <2>9. \A s \in Created : /\ shipments[s].group \in Groups
                             /\ groups[shipments[s].group] \in Departed
                             /\ shipments[s].group # local[p].group
      BY <2>8 DEF CInv, ParcelInv, ParcelTypes, Shipment, ParcelsTravelOnce
    <2>10. ParcelsTravelOnce'
      <3>1. groups'[local[p].group] \in Departed
        BY <2>8 DEF Departed, OnTheRoad
      <3>2. QED
        BY <2>3, <2>5, <2>6, <2>8, <2>9, <3>1 DEF CInv, ParcelInv, ParcelsTravelOnce
    <2>11. Deliveries(p)' = {} /\ \A s \in Created : Deliveries(s)' = Deliveries(s)
      BY <2>4, <2>6 DEF Deliveries
    <2>12. DeliveredTogether'
      <3>1. ASSUME NEW g \in Groups
            PROVE  groups'[g] = "DELIVERED"
                   <=> \E s \in Created' : shipments'[s].group = g /\ Deliveries(s)' # {}
        <4>1. groups'[g] = "DELIVERED" <=> groups[g] = "DELIVERED"
          BY <2>8
        <4>2. (\E s \in Created' : shipments'[s].group = g /\ Deliveries(s)' # {})
              <=> \E s \in Created : shipments[s].group = g /\ Deliveries(s) # {}
          BY <2>5, <2>6, <2>11
        <4>3. QED
          BY <4>1, <4>2 DEF CInv, ParcelInv, DeliveredTogether
      <3>2. \A s \in Created' : \A n, m \in Deliveries(s)' : n = m
        BY <2>5, <2>11 DEF CInv, ParcelInv, DeliveredTogether
      <3>3. QED
        BY <3>1, <3>2 DEF DeliveredTogether
    <2>13. CallTypes' /\ CallsReady'
      BY <1>1, <2>5, CallAnswered DEF Handover
    <2>14. QED
      BY <2>1, <2>7, <2>10, <2>12, <2>13 DEF CInv, ParcelInv
  <1>4. CASE UNCHANGED <<orderVars, parcelVars>>
    <2>1. OInv' /\ [Next]_orderVars /\ ParcelInv' /\ Created' = Created
      BY <1>4, Remembered
    <2>2. CallTypes' /\ CallsReady'
      BY <1>1, <2>1, CallAnswered DEF Handover
    <2>3. QED
      BY <2>1, <2>2 DEF CInv
  <1>5. QED
    BY <1>3, <1>4 DEF Handover, Together, r

\* A status other than a delivery is written on its own, a delivery with its group.
LEMMA ReportStep ==
    ASSUME CInv, NEW p \in Calls, NEW s \in Created, NEW status \in ShipmentStatuses,
           NEW role \in Roles \ {"CUSTOMER"}, NEW key \in Keys,
           IF status = "DELIVERED" THEN Deliver(s, role, key)
           ELSE AppendEvent(s, status) /\ UNCHANGED orderVars,
           Answer(p), UNCHANGED booked
    PROVE  CInv' /\ [Next]_orderVars
  <1>1. OInv' /\ [Next]_orderVars /\ ParcelInv' /\ Created' = Created
    <2>1. CASE status = "DELIVERED"
      BY <2>1, DeliverStep DEF CInv
    <2>2. CASE status # "DELIVERED"
      <3>1. UNCHANGED orderVars /\ AppendEvent(s, status)
        BY <2>2
      <3>2. OInv'
        BY <3>1, NextOrder DEF CInv
      <3>3. QED
        BY <2>2, <3>1, <3>2, ReportKeepsParcels DEF CInv
    <2>3. QED
      BY <2>1, <2>2
  <1>2. booked' \subseteq Calls /\ CallTypes /\ CallsReady
    BY DEF CInv, CallTypes
  <1>3. CallTypes' /\ CallsReady'
    BY <1>1, <1>2, CallAnswered
  <1>4. QED
    BY <1>1, <1>3 DEF CInv

LEMMA KeysOfService ==
    ASSUME CInv, NEW p \in Calls
    PROVE  AppendedKey(p) \in Keys /\ \A s \in Created : DeliveredKey(s) \in Keys
  BY CourierAssumption DEF CInv, ParcelInv, ParcelTypes

LEMMA WebhookStep ==
    ASSUME CInv, NEW p \in Calls, CourierWebhook(p)
    PROVE  CInv' /\ [Next]_orderVars
  <1>1. PICK s \in Created, status \in Reported :
           IF status = "DELIVERED"
           THEN Deliver(s, "SYSTEM", DeliveredKey(s))
           ELSE AppendEvent(s, status) /\ UNCHANGED orderVars
    BY DEF CourierWebhook
  <1>2. /\ status \in ShipmentStatuses /\ "SYSTEM" \in Roles \ {"CUSTOMER"}
        /\ DeliveredKey(s) \in Keys
    BY CourierAssumption, KeysOfService DEF Roles
  <1>3. QED
    BY <1>1, <1>2, ReportStep DEF CourierWebhook

LEMMA VerifyStep ==
    ASSUME CInv, NEW p \in Calls, VerifyDelivery(p)
    PROVE  CInv' /\ [Next]_orderVars
  <1> DEFINE s == local[p].shipment
  <1>1. s \in Created /\ Deliver(s, "SYSTEM", DeliveredKey(s))
    BY DEF VerifyDelivery, CInv, CallsReady, Writing
  <1>2. /\ "DELIVERED" \in ShipmentStatuses /\ "SYSTEM" \in Roles \ {"CUSTOMER"}
        /\ DeliveredKey(s) \in Keys
    BY <1>1, KeysOfService DEF Roles, ShipmentStatuses
  <1> HIDE DEF s
  <1>3. QED
    BY <1>1, <1>2, ReportStep DEF VerifyDelivery

LEMMA WriteStep ==
    ASSUME CInv, NEW p \in Calls, WriteStatus(p)
    PROVE  CInv' /\ [Next]_orderVars
  <1> DEFINE s == local[p].shipment
             status == local[p].status
             role == local[p].role
  <1>1. s \in Created /\ status \in ShipmentStatuses /\ role \in Roles \ {"CUSTOMER"}
    BY DEF WriteStatus, CInv, CallsReady, CallTypes, Local, Writing
  <1>2. AppendedKey(p) \in Keys
    BY KeysOfService
  <1>3. /\ IF status = "DELIVERED" THEN Deliver(s, role, AppendedKey(p))
           ELSE AppendEvent(s, status) /\ UNCHANGED orderVars
        /\ Answer(p) /\ UNCHANGED booked
    BY DEF WriteStatus
  <1> HIDE DEF s, status, role
  <1>4. QED
    BY <1>1, <1>2, <1>3, ReportStep

\* A call that has read a shipment and goes on to write it.
LEMMA ReadStep ==
    ASSUME CInv, NEW p \in Calls, NEW step \in Writing, NEW l \in Local,
           l.shipment \in Created, Goto(p, step, l),
           UNCHANGED <<orderVars, parcelVars, booked>>
    PROVE  CInv' /\ [Next]_orderVars
  <1>1. OInv' /\ [Next]_orderVars /\ ParcelInv' /\ Created' = Created
    BY Remembered
  <1>2. booked' \subseteq Calls /\ step \in Steps
    BY DEF CInv, CallTypes, Steps, Writing
  <1>3. CallTypes' /\ CallsReady'
    BY <1>1, <1>2, CallMoved DEF CInv, Writing
  <1>4. QED
    BY <1>1, <1>3 DEF CInv

LEMMA BeginStep ==
    ASSUME CInv, NEW p \in Calls,
           BeginVerify(p) \/ BeginAppend(p) \/ BeginCancel(p) \/ BeginAccept(p)
    PROVE  CInv' /\ [Next]_orderVars
  <1>1. Created \subseteq Calls /\ Reported \subseteq ShipmentStatuses
    BY CourierAssumption DEF CInv, ParcelInv, ParcelTypes
  <1>2. CASE BeginVerify(p)
    <2>1. PICK s \in Created : Goto(p, "deliver", [Blank EXCEPT !.shipment = s])
      BY <1>2 DEF BeginVerify
    <2>2. [Blank EXCEPT !.shipment = s] \in Local /\ [Blank EXCEPT !.shipment = s].shipment = s
      BY <1>1, BlankLocal DEF Local
    <2>3. QED
      BY <1>2, <2>1, <2>2, ReadStep DEF BeginVerify, Writing
  <1>3. CASE BeginAppend(p)
    <2>1. PICK s \in Created, status \in Reported, role \in {"SELLER", "ADMIN"} :
             Goto(p, "write", [Blank EXCEPT !.shipment = s, !.status = status, !.role = role])
      BY <1>3 DEF BeginAppend
    <2> DEFINE l == [Blank EXCEPT !.shipment = s, !.status = status, !.role = role]
    <2>2. l \in Local /\ l.shipment = s
      BY <1>1, BlankLocal DEF Local, Roles
    <2> HIDE DEF l
    <2>3. Goto(p, "write", l)
      BY <2>1 DEF l
    <2>4. QED
      BY <1>3, <2>2, <2>3, ReadStep DEF BeginAppend, Writing
  <1>4. CASE BeginCancel(p)
    <2>1. PICK s \in Created :
             Goto(p, "write", [Blank EXCEPT !.shipment = s, !.status = "CANCELLED"])
      BY <1>4 DEF BeginCancel
    <2> DEFINE l == [Blank EXCEPT !.shipment = s, !.status = "CANCELLED"]
    <2>2. l \in Local /\ l.shipment = s
      BY <1>1, BlankLocal DEF Local, ShipmentStatuses
    <2> HIDE DEF l
    <2>3. Goto(p, "write", l)
      BY <2>1 DEF l
    <2>4. QED
      BY <1>4, <2>2, <2>3, ReadStep DEF BeginCancel, Writing
  <1>5. CASE BeginAccept(p)
    <2>1. PICK s \in Created : Goto(p, "claim", [Blank EXCEPT !.shipment = s])
      BY <1>5 DEF BeginAccept
    <2>2. [Blank EXCEPT !.shipment = s] \in Local /\ [Blank EXCEPT !.shipment = s].shipment = s
      BY <1>1, BlankLocal DEF Local
    <2>3. QED
      BY <1>5, <2>1, <2>2, ReadStep DEF BeginAccept, Writing
  <1>6. QED
    BY <1>2, <1>3, <1>4, <1>5

\* A rider who claims a parcel writes its status and leaves its events to the next query.
LEMMA ClaimStep ==
    ASSUME CInv, NEW p \in Calls, ClaimParcel(p)
    PROVE  CInv' /\ [Next]_orderVars
  <1> DEFINE s == local[p].shipment
  <1>1. /\ s \in Created /\ local[p] \in Local
        /\ shipments' = [shipments EXCEPT ![s].status = "PICKED_UP"]
        /\ events' = events
    BY DEF ClaimParcel, CInv, CallsReady, CallTypes, Writing
  <1> HIDE DEF s
  <1>2. /\ ParcelTypes' /\ Created' = Created
        /\ \A t \in Created : shipments'[t].group = shipments[t].group
        /\ \A t \in Created : Deliveries(t)' = Deliveries(t)
    BY <1>1 DEF CInv, ParcelInv, ParcelTypes, Created, Shipment, ShipmentStatuses, Deliveries
  <1>3. OInv' /\ [Next]_orderVars /\ groups' = groups
    <2>1. UNCHANGED orderVars
      BY DEF ClaimParcel
    <2>2. QED
      BY <2>1, NextOrder DEF CInv, orderVars
  <1>4. ParcelInv'
    BY <1>2, <1>3, SameDeliveries DEF CInv
  <1>5. CallTypes' /\ CallsReady'
    <2>1. Goto(p, "record", local[p]) /\ booked' \subseteq Calls /\ "record" \in Steps
      BY DEF ClaimParcel, CInv, CallTypes, Steps
    <2>2. local[p].shipment \in Created
      BY <1>1 DEF s
    <2>3. QED
      BY <1>1, <1>2, <2>1, <2>2, CallMoved DEF CInv, Writing
  <1>6. QED
    BY <1>3, <1>4, <1>5 DEF CInv

\* The event of a claim says nothing of a delivery.
LEMMA RecordStep ==
    ASSUME CInv, NEW p \in Calls, RecordClaim(p)
    PROVE  CInv' /\ [Next]_orderVars
  <1> DEFINE s == local[p].shipment
  <1>1. /\ s \in Created
        /\ events' = [events EXCEPT ![s] = Append(@, "PICKED_UP")]
        /\ shipments' = shipments
    BY DEF RecordClaim, CInv, CallsReady, Writing
  <1> HIDE DEF s
  <1>2. Created' = Created /\ ParcelTypes'
    <2>1. events[s] \in Seq(ShipmentStatuses) /\ "PICKED_UP" \in ShipmentStatuses
      BY <1>1 DEF CInv, ParcelInv, ParcelTypes, ShipmentStatuses
    <2>2. Append(events[s], "PICKED_UP") \in Seq(ShipmentStatuses)
      BY <2>1
    <2>3. QED
      BY <1>1, <2>2 DEF CInv, ParcelInv, ParcelTypes, Created
  <1>3. ASSUME NEW t \in Created
        PROVE  Deliveries(t)' = Deliveries(t)
    <2>1. CASE t = s
      <3>1. events[s] \in Seq(ShipmentStatuses) /\ events'[s] = Append(events[s], "PICKED_UP")
        BY <1>1 DEF CInv, ParcelInv, ParcelTypes
      <3>2. /\ DOMAIN events[s] = 1 .. Len(events[s])
            /\ DOMAIN events'[s] = 1 .. Len(events[s]) + 1
            /\ events'[s][Len(events[s]) + 1] = "PICKED_UP"
            /\ \A n \in 1 .. Len(events[s]) : events'[s][n] = events[s][n]
            /\ Len(events[s]) \in Nat
        BY <3>1
      <3>3. QED
        BY <2>1, <3>2 DEF Deliveries
    <2>2. CASE t # s
      BY <1>1, <2>2 DEF Deliveries, CInv, ParcelInv, ParcelTypes
    <2>3. QED
      BY <2>1, <2>2
  <1>4. OInv' /\ [Next]_orderVars /\ groups' = groups
    <2>1. UNCHANGED orderVars
      BY DEF RecordClaim
    <2>2. QED
      BY <2>1, NextOrder DEF CInv, orderVars
  <1>5. ParcelInv'
    BY <1>1, <1>2, <1>3, <1>4, SameDeliveries DEF CInv
  <1>6. CallTypes' /\ CallsReady'
    <2>1. Answer(p) /\ booked' \subseteq Calls
      BY DEF RecordClaim, CInv, CallTypes
    <2>2. QED
      BY <1>2, <2>1, CallAnswered DEF CInv
  <1>7. QED
    BY <1>4, <1>5, <1>6 DEF CInv

LEMMA FailStep ==
    ASSUME CInv, NEW p \in Calls, Fail(p)
    PROVE  CInv' /\ [Next]_orderVars
  <1>1. OInv' /\ [Next]_orderVars /\ ParcelInv' /\ Created' = Created
    BY Remembered DEF Fail
  <1>2. booked' \subseteq Calls /\ CallTypes /\ CallsReady
    BY DEF Fail, CInv, CallTypes
  <1>3. CallTypes' /\ CallsReady'
    BY <1>1, <1>2, CallAnswered DEF Fail
  <1>4. QED
    BY <1>1, <1>3 DEF CInv

\* Nobody but the service delivers a group or takes it back from the road.
LEMMA MoveOrderStep ==
    ASSUME CInv, MoveOrder
    PROVE  CInv' /\ [Next]_orderVars
  <1>1. PICK r \in Manual : TransitionOrder(r) \/ TransitionGroup(r)
    BY DEF MoveOrder
  <1>2. r \in Sent /\ r.role # "SYSTEM"
    BY <1>1 DEF Manual
  <1>3. OInv' /\ [Next]_orderVars
    BY <1>1, <1>2, OrderStep, GroupStep DEF CInv, Next
  <1>4. \A g \in Groups : /\ groups[g] \in Departed => groups'[g] \in Departed
                          /\ groups'[g] = "DELIVERED" <=> groups[g] = "DELIVERED"
    <2>1. CASE TransitionOrder(r)
      BY <1>2, <2>1, OrderKeepsParcels DEF CInv
    <2>2. CASE TransitionGroup(r)
      BY <1>2, <2>2, GroupKeepsParcels DEF CInv
    <2>3. QED
      BY <1>1, <2>1, <2>2
  <1>5. ParcelInv' /\ Created' = Created
    BY <1>4, ParcelFrame DEF CInv, MoveOrder
  <1>6. CallTypes' /\ CallsReady'
    BY <1>5 DEF MoveOrder, callVars, CInv, CallTypes, CallsReady
  <1>7. QED
    BY <1>3, <1>5, <1>6 DEF CInv

LEMMA InitCourier == CourierInit => CInv
  <1> SUFFICES ASSUME CourierInit PROVE CInv
    OBVIOUS
  <1>1. OInv
    BY InitOrder DEF CourierInit
  <1>2. Created = {} /\ ParcelTypes
    BY DEF CourierInit, Created, ParcelTypes
  <1>3. \A g \in Groups : groups[g] # "DELIVERED"
    BY DEF CourierInit, Init
  <1>4. ParcelInv
    BY <1>2, <1>3 DEF ParcelInv, ParcelsTravelOnce, DeliveredTogether
  <1>5. CallTypes /\ CallsReady
    BY <1>2, BlankLocal DEF CourierInit, CallTypes, CallsReady, Steps, Writing
  <1>6. QED
    BY <1>1, <1>4, <1>5 DEF CInv

LEMMA NextCourier ==
    ASSUME CInv, [CourierNext]_courierVars
    PROVE  CInv' /\ [Next]_orderVars
  <1>1. ASSUME NEW p \in Calls, CourierStep(p)
        PROVE  CInv' /\ [Next]_orderVars
    BY <1>1, BeginDispatchStep, BookStep, HandoverStep, WebhookStep, BeginStep, VerifyStep,
       WriteStep, ClaimStep, RecordStep, FailStep DEF CourierStep
  <1>2. ASSUME UNCHANGED courierVars
        PROVE  CInv' /\ [Next]_orderVars
    <2>1. UNCHANGED <<orderVars, parcelVars>> /\ pc' = pc /\ local' = local /\ booked' = booked
      BY <1>2 DEF courierVars, orderVars, parcelVars
    <2>2. OInv' /\ [Next]_orderVars /\ ParcelInv' /\ Created' = Created
      BY <2>1, Remembered
    <2>3. QED
      BY <2>1, <2>2 DEF CInv, CallTypes, CallsReady
  <1>3. QED
    BY <1>1, <1>2, MoveOrderStep DEF CourierNext

LEMMA CourierInvariance == CourierSpec => []CInv
  <1>1. CInv /\ [CourierNext]_courierVars => CInv'
    BY NextCourier
  <1>2. QED
    BY InitCourier, <1>1, PTL DEF CourierSpec

-----------------------------------------------------------------------------
(* The theorems.                                                           *)

\* Shipments, events and calls in progress keep their types, whatever fails half-way.
THEOREM CourierTypes == CourierSpec => []CourierTypeOK
  <1>1. CInv => CourierTypeOK
    BY DEF CInv, ParcelInv, ParcelTypes, CallTypes, CourierTypeOK
  <1>2. QED
    BY CourierInvariance, <1>1, PTL

\* A group never gets two shipments, and no shipment belongs to a group that stayed.
THEOREM TravelOnce == CourierSpec => []ParcelsTravelOnce
  <1>1. CInv => ParcelsTravelOnce
    BY DEF CInv, ParcelInv
  <1>2. QED
    BY CourierInvariance, <1>1, PTL

\* A group is delivered exactly when one event of its shipment says so.
THEOREM DeliveriesAgree == CourierSpec => []DeliveredTogether
  <1>1. CInv => DeliveredTogether
    BY DEF CInv, ParcelInv
  <1>2. QED
    BY CourierInvariance, <1>1, PTL

\* Every step of the courier service is a step of the order life cycle, or none.
THEOREM CourierRefines == CourierSpec => ImplementsOrders
  <1>1. CourierInit => Init
    BY DEF CourierInit
  <1>2. CInv /\ [CourierNext]_courierVars => [Next]_orderVars
    BY NextCourier
  <1>3. QED
    BY CourierInvariance, <1>1, <1>2, PTL DEF CourierSpec, ImplementsOrders, Spec

\* What is proved of orders therefore holds with couriers, too: the parent matches its
\* groups while shipments are booked, delivered and reported out of order.
THEOREM ParentMatchesWithCouriers == CourierSpec => []ParentMatchesGroups
  BY CourierRefines, ParentMatches, PTL DEF ImplementsOrders
=============================================================================
