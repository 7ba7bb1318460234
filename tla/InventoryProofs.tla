-------------------------- MODULE InventoryProofs ---------------------------
(***************************************************************************)
(* Proofs about Inventory: its types, the non-negativity of the balance,   *)
(* the backing of every ACTIVE reservation, the conservation of reserved   *)
(* units, and that the concurrent service implements the reservation book. *)
(***************************************************************************)
EXTENDS Inventory, SetLemmas, TLAPS

-----------------------------------------------------------------------------
(* The inductive invariant.                                                *)

\* Reservations that exist, live or settled, have a quantity; those of this balance
\* were booked with it, and the ones still ACTIVE hold it.
ReservationsBooked ==
    /\ \A r \in AllReservations : resv[r].status # "NONE" => resv[r].qty > 0
    /\ \A r \in Reservations :
          /\ resv[r].status # "NONE" => booked[r] = resv[r].qty
          /\ resv[r].status = "ACTIVE" => settled[r] = "none"

\* The request is about to change the units of an existing reservation.
OnTarget(l) == l.op \in Settling /\ l.target \in AllReservations

\* A request that writes this balance is about it; only a compensation of this balance
\* can be about to settle a reservation of another one.
Addressed(s, l) ==
    /\ s \in {"attempt", "verify", "store"} => ~l.away
    /\ s \in {"balance", "check", "mark", "verify", "store"} /\ OnTarget(l)
          /\ l.target \in Foreign
       => l.away \/ l.op = "compensate"

\* A request at step s with memory l that has not created its reservation yet has
\* booked nothing before its Store, and exactly its quantity until the creation.
Unbooked(p, s, l) ==
    /\ s \in {"idle", "attempt", "create"} \/ (l.op = "reserve" /\ s \in {"verify", "store"})
       => resv[p].status = "NONE" /\ settled[p] = "none"
    /\ s \in {"idle", "attempt"} \/ (l.op = "reserve" /\ s \in {"verify", "store"})
       => booked[p] = 0
    /\ s = "create" => booked[p] = l.qty
    /\ s \in {"attempt", "create"} => l.op = "reserve"
    /\ l.op = "reserve" => l.qty \in Quantities /\ l.delta = Reserved(l.qty)

\* A request settling a reservation asks for exactly the reservation's units; the
\* reservation is no longer ACTIVE once the request is past Mark.
Settles(s, l) ==
    /\ s \in {"balance", "check", "mark"} => OnTarget(l)
    /\ s \in {"balance", "check", "mark", "verify", "store"} /\ OnTarget(l)
       => /\ resv[l.target].status # "NONE"
          /\ l.qty = resv[l.target].qty
          /\ l.delta = SettleDelta(l.op, l.qty)
    /\ s \in {"verify", "store"} /\ OnTarget(l) => resv[l.target].status # "ACTIVE"
    /\ s = "find" => l.op = "compensate" /\ l.target \in AllReservations
    /\ s = "find" \/ (s \in {"verify", "store"} /\ l.op # "reserve" /\ ~OnTarget(l))
       => l.delta.reserved = 0
    /\ \A item \in l.batch : resv[item[1]].status # "NONE"

\* What optimistic concurrency does guarantee: as long as the version is the one the
\* request read, its target is unsettled and the values it will write are current.
Current(s, l) ==
    /\ l.seenRow =< version
    /\ s = "store" => Valid(l.next)
    /\ s = "store" /\ l.seenRow = version => l.next = Apply(row, l.delta)
    /\ s \in {"mark", "verify", "store"} /\ l.seenRow = version
          /\ OnTarget(l) /\ l.target \in Reservations
       => settled[l.target] = "none"

Coherent(p, s, l) ==
    Unbooked(p, s, l) /\ Addressed(s, l) /\ Settles(s, l) /\ Current(s, l)

IInv ==
    /\ TypeOK
    /\ Valid(row)
    /\ ReservationsBooked
    /\ \A p \in Requests : Coherent(p, pc[p], local[p])

-----------------------------------------------------------------------------
(* Lemmas about rows, changes and the memory of a request.                 *)

\* Every change an operation asks for is a change of integer columns.
LEMMA DeltaTypes ==
    ASSUME NEW q \in Int
    PROVE  /\ Nothing \in Delta /\ Nothing \in Row
           /\ Received(q) \in Delta /\ Reserved(q) \in Delta
           /\ Freed(q) \in Delta /\ Sold(q) \in Delta /\ Shipped(q) \in Delta
           /\ \A t \in Adjustments : Adjusted(t, q) \in Delta
           /\ \A a \in QuarantineActions : Quarantined(a, q) \in Delta
           /\ \A d \in Dispositions : Returned(d, q) \in Delta
           /\ \A v \in Verdicts : Inspected(v, q) \in Delta
  <1>1. /\ Nothing \in Delta /\ Nothing \in Row
        /\ Received(q) \in Delta /\ Reserved(q) \in Delta
        /\ Freed(q) \in Delta /\ Sold(q) \in Delta /\ Shipped(q) \in Delta
    BY DEF Nothing, Received, Reserved, Freed, Sold, Shipped, Columns, Delta, Row
  <1>2. \A t \in Adjustments : Adjusted(t, q) \in Delta
    BY DEF Adjustments, Adjusted, Magnitude, Columns, Delta
  <1>3. \A a \in QuarantineActions : Quarantined(a, q) \in Delta
    BY DEF QuarantineActions, Quarantined, Columns, Delta
  <1>4. \A d \in Dispositions : Returned(d, q) \in Delta
    BY DEF Dispositions, Returned, Columns, Delta
  <1>5. \A v \in Verdicts : Inspected(v, q) \in Delta
    BY DEF Verdicts, Inspected, Columns, Delta
  <1>6. QED
    BY <1>1, <1>2, <1>3, <1>4, <1>5

\* The operations that take no reservation leave the reserved column alone.
LEMMA DirectDeltas ==
    ASSUME NEW q \in Int
    PROVE  /\ Received(q).reserved = 0 /\ Shipped(q).reserved = 0
           /\ \A t \in Adjustments : Adjusted(t, q).reserved = 0
           /\ \A a \in QuarantineActions : Quarantined(a, q).reserved = 0
           /\ \A d \in Dispositions : Returned(d, q).reserved = 0
           /\ \A v \in Verdicts : Inspected(v, q).reserved = 0
  BY DEF Received, Shipped, Columns, Adjustments, Adjusted, QuarantineActions, Quarantined,
         Dispositions, Returned, Verdicts, Inspected

\* A row that passes atomicUpdate's checks is a row of natural numbers.
LEMMA AppliedRow ==
    ASSUME NEW r \in Row, NEW d \in Delta, Valid(Apply(r, d))
    PROVE  Apply(r, d) \in Row
  BY DEF Row, Delta, Apply, Columns, Valid

LEMMA BlankType == Blank \in Local
  BY DeltaTypes DEF Blank, Local, Kinds

\* Nothing is known of a request that holds nothing and is answered.
LEMMA BlankCoherent ==
    ASSUME TypeOK, NEW p \in Requests
    PROVE  Coherent(p, "done", Blank)
  BY DEF Coherent, Unbooked, Addressed, Settles, Current, Blank, OnTarget, Settling, TypeOK

\* A step that writes no row, reservation or history, and leaves the request that
\* takes it coherent, preserves the invariant.
LEMMA LocalStep ==
    ASSUME IInv, NEW p \in Requests, NEW s \in Steps, NEW l \in Local,
           Goto(p, s, l), Coherent(p, s, l),
           row' = row, version' = version, resv' = resv, due' \subseteq AllReservations,
           ledger' \in Nat, booked' = booked, settled' = settled,
           strayed' = strayed, clobbered' = clobbered
    PROVE  IInv'
  <1>1. /\ pc' = [pc EXCEPT ![p] = s] /\ local' = [local EXCEPT ![p] = l]
        /\ pc \in [Requests -> Steps] /\ local \in [Requests -> Local]
    BY DEF Goto, IInv, TypeOK
  <1>2. TypeOK'
    BY <1>1 DEF IInv, TypeOK
  <1>3. Valid(row)' /\ ReservationsBooked'
    BY DEF IInv, ReservationsBooked
  <1>4. ASSUME NEW q \in Requests PROVE Coherent(q, pc[q], local[q])'
    <2>1. Coherent(q, pc'[q], local'[q])
      BY <1>1 DEF IInv
    <2>2. QED
      BY <2>1 DEF Coherent, Unbooked, Addressed, Settles, Current
  <1>5. QED
    BY <1>2, <1>3, <1>4 DEF IInv

\* Answering, whatever the request was doing.
LEMMA AnswerStep ==
    ASSUME IInv, NEW p \in Requests, Answer(p),
           row' = row, version' = version, resv' = resv, due' \subseteq AllReservations,
           ledger' \in Nat, booked' = booked, settled' = settled,
           strayed' = strayed, clobbered' = clobbered
    PROVE  IInv'
  <1>1. Goto(p, "done", Blank) /\ "done" \in Steps
    BY DEF Answer, Steps
  <1>2. QED
    BY <1>1, LocalStep, BlankType, BlankCoherent DEF IInv

\* Answering, or going on with the next reservation of a sweep.
LEMMA ProceedStep ==
    ASSUME IInv, NEW p \in Requests, Proceed(p),
           row' = row, version' = version, resv' = resv, due' \subseteq AllReservations,
           ledger' \in Nat, booked' = booked, settled' = settled,
           strayed' = strayed, clobbered' = clobbered
    PROVE  IInv'
  <1>1. CASE local[p].op = "expire"
    <2> DEFINE l == [Blank EXCEPT !.op = "expire", !.batch = local[p].batch]
    <2>1. Goto(p, "sweep", l) /\ "sweep" \in Steps
      BY <1>1 DEF Proceed, Steps
    <2>2. l \in Local
      BY BlankType DEF IInv, TypeOK, Local, Kinds
    <2>3. Coherent(p, "sweep", l)
      <3>1. Settles(pc[p], local[p])
        BY DEF IInv, Coherent
      <3>2. QED
        BY <3>1 DEF Coherent, Unbooked, Addressed, Settles, Current, Blank, IInv, TypeOK
    <2>4. QED
      BY <2>1, <2>2, <2>3, LocalStep
  <1>2. CASE local[p].op # "expire"
    BY <1>2, AnswerStep DEF Proceed
  <1>3. QED
    BY <1>1, <1>2

-----------------------------------------------------------------------------
(* One lemma per group of actions that write neither the balance nor a     *)
(* reservation.                                                            *)

\* Every quantity is an integer and its opposite is one too.
LEMMA QuantityType == \A q \in Quantities : q \in Nat \ {0} /\ q \in Int /\ 0 - q \in Int
  BY InventoryAssumption

LEMMA ReserveSteps ==
    ASSUME IInv, NEW p \in Requests, BeginReserve(p) \/ TryReserve(p)
    PROVE  IInv'
  <1>1. UNCHANGED <<row, version, resv, due, ledger, booked, settled, strayed, clobbered>>
    BY DEF BeginReserve, TryReserve, stored, history
  <1>2. due' \subseteq AllReservations /\ ledger' \in Nat
    BY <1>1 DEF IInv, TypeOK
  <1>3. Coherent(p, pc[p], local[p]) /\ local[p] \in Local
    BY DEF IInv, TypeOK
  <1>4. CASE Answer(p)
    BY <1>1, <1>2, <1>4, AnswerStep
  <1>5. ASSUME NEW cart \in Carts \cup {None}, NEW q \in Quantities, pc[p] = "idle",
               Goto(p, "attempt", [Blank EXCEPT !.op = "reserve", !.cart = cart, !.qty = q,
                                                !.delta = Reserved(q)])
        PROVE  IInv'
    <2> DEFINE l == [Blank EXCEPT !.op = "reserve", !.cart = cart, !.qty = q,
                                  !.delta = Reserved(q)]
    <2>1. /\ l.op = "reserve" /\ l.target = None /\ l.qty = q /\ l.delta = Reserved(q)
          /\ l.batch = {} /\ l.seenRow = 0 /\ l.away = FALSE
      BY DEF Blank
    <2>2. l \in Local
      BY BlankType, DeltaTypes, QuantityType DEF Local, Kinds
    <2>3. Coherent(p, "attempt", l)
      <3> HIDE DEF l
      <3>1. QED
        BY <1>3, <1>5, <2>1, QuantityType DEF Coherent, Unbooked, Addressed, Settles, Current,
                                              OnTarget, Settling, IInv, TypeOK
    <2>4. QED
      BY <1>1, <1>2, <1>5, <2>2, <2>3, LocalStep DEF Steps
  <1>6. ASSUME pc[p] = "attempt",
               Goto(p, "verify", [local[p] EXCEPT !.attempt = @ + 1, !.seenRow = version])
        PROVE  IInv'
    <2> DEFINE l == [local[p] EXCEPT !.attempt = @ + 1, !.seenRow = version]
    <2>1. l \in Local
      <3>1. version \in Nat /\ local[p].attempt + 1 \in Nat
        BY <1>3 DEF Local, IInv, TypeOK
      <3>2. QED
        BY <1>3, <3>1 DEF Local
    <2>2. /\ l.op = local[p].op /\ l.target = local[p].target /\ l.qty = local[p].qty
          /\ l.delta = local[p].delta /\ l.batch = local[p].batch /\ l.seenRow = version
          /\ l.away = local[p].away
      BY <1>3 DEF Local
    <2>3. local[p].op = "reserve"
      BY <1>3, <1>6 DEF Coherent, Unbooked
    <2>4. Coherent(p, "verify", l)
      <3> HIDE DEF l
      <3>1. QED
        BY <1>3, <1>6, <2>2, <2>3 DEF Coherent, Unbooked, Addressed, Settles, Current,
                                      OnTarget, Settling, IInv, TypeOK
    <2>5. QED
      BY <1>1, <1>2, <1>6, <2>1, <2>4, LocalStep DEF Steps
  <1>7. QED
    BY <1>4, <1>5, <1>6 DEF BeginReserve, TryReserve, Idle

\* A request told whether it is about another balance remembers the rest as before.
LEMMA ToldAway ==
    ASSUME NEW l \in Local, NEW elsewhere \in BOOLEAN
    PROVE  LET m == [l EXCEPT !.away = elsewhere]
           IN  /\ m \in Local
               /\ elsewhere => m.away
               /\ m.seenRow = l.seenRow /\ m.batch = l.batch
  BY DEF Local

\* What a request remembers of a reservation that exists is what it will settle.
LEMMA ReadingType ==
    ASSUME IInv, NEW l \in Local, NEW op \in Settling, NEW r \in AllReservations,
           NEW seen \in Nat, resv[r].status # "NONE",
           r \in Foreign => l.away \/ op = "compensate",
           \A item \in l.batch : resv[item[1]].status # "NONE",
           l.seenRow =< version
    PROVE  LET m == Reading(l, op, r, seen)
           IN  /\ m \in Local
               /\ m.op = op /\ m.target = r /\ m.qty = resv[r].qty
               /\ m.delta = SettleDelta(op, resv[r].qty)
               /\ m.batch = l.batch /\ m.seenRow = l.seenRow
               /\ Settles("balance", m) /\ Settles("check", m)
               /\ Addressed("balance", m) /\ Addressed("check", m)
               /\ op # "reserve"
  <1> DEFINE m == Reading(l, op, r, seen)
  <1>1. resv[r].qty \in Nat
    BY DEF IInv, TypeOK, Reservation
  <1>2. SettleDelta(op, resv[r].qty) \in Delta
    BY <1>1, DeltaTypes DEF SettleDelta
  <1>3. m \in Local
    BY <1>1, <1>2 DEF Reading, Local, Kinds, Settling
  <1>4. /\ m.op = op /\ m.target = r /\ m.qty = resv[r].qty
        /\ m.delta = SettleDelta(op, resv[r].qty)
        /\ m.batch = l.batch /\ m.seenRow = l.seenRow /\ m.away = l.away
    BY <1>3 DEF Reading, Local
  <1>5. /\ Settles("balance", m) /\ Settles("check", m)
        /\ Addressed("balance", m) /\ Addressed("check", m)
    <2> HIDE DEF m
    <2>1. QED
      BY <1>4 DEF Settles, Addressed, OnTarget
  <1>6. QED
    BY <1>3, <1>4, <1>5 DEF Settling

LEMMA SettleReads ==
    ASSUME IInv, NEW p \in Requests,
           (\E op \in {"commit", "release"} : BeginSettle(p, op)) \/ ReadBalance(p)
    PROVE  IInv'
  <1>1. UNCHANGED <<row, version, resv, due, ledger, booked, settled, strayed, clobbered>>
    BY DEF BeginSettle, ReadBalance, stored, history
  <1>2. due' \subseteq AllReservations /\ ledger' \in Nat
    BY <1>1 DEF IInv, TypeOK
  <1>3. Coherent(p, pc[p], local[p]) /\ local[p] \in Local
    BY DEF IInv, TypeOK
  <1>4. ASSUME NEW op \in {"commit", "release"}, NEW r \in AllReservations,
               resv[r].status = "ACTIVE",
               Goto(p, "balance",
                    Reading([Blank EXCEPT !.away = r \in Foreign], op, r, resv[r].version))
        PROVE  IInv'
    <2> DEFINE b == [Blank EXCEPT !.away = r \in Foreign]
               m == Reading(b, op, r, resv[r].version)
    <2>1. /\ b \in Local /\ (r \in Foreign => b.away)
          /\ b.batch = Blank.batch /\ b.seenRow = Blank.seenRow
      <3>1. (r \in Foreign) \in BOOLEAN
        OBVIOUS
      <3>2. QED
        BY <3>1, BlankType, ToldAway
    <2> HIDE DEF b
    <2>2. /\ op \in Settling /\ resv[r].version \in Nat /\ resv[r].status # "NONE"
          /\ b.batch = {} /\ b.seenRow = 0 /\ version \in Nat
          /\ b.seenRow =< version /\ \A item \in b.batch : resv[item[1]].status # "NONE"
      BY <1>4, <2>1 DEF Settling, IInv, TypeOK, Reservation, Blank
    <2>3. /\ m \in Local /\ m.op = op /\ m.seenRow = 0 /\ op # "reserve"
          /\ Settles("balance", m) /\ Addressed("balance", m)
      BY <2>1, <2>2, ReadingType
    <2>4. Coherent(p, "balance", m)
      <3> HIDE DEF m
      <3>1. QED
        BY <2>2, <2>3 DEF Coherent, Unbooked, Current
    <2>5. QED
      BY <1>1, <1>2, <1>4, <2>3, <2>4, LocalStep DEF Steps, b
  <1>5. ASSUME pc[p] = "balance", Goto(p, "check", [local[p] EXCEPT !.seenRow = version])
        PROVE  IInv'
    <2> DEFINE m == [local[p] EXCEPT !.seenRow = version]
    <2>1. /\ m \in Local /\ m.op = local[p].op /\ m.target = local[p].target
          /\ m.qty = local[p].qty /\ m.delta = local[p].delta /\ m.batch = local[p].batch
          /\ m.seenRow = version /\ m.away = local[p].away
      BY <1>3 DEF Local, IInv, TypeOK
    <2>2. Coherent(p, "check", m)
      <3> HIDE DEF m
      <3>1. QED
        BY <1>3, <1>5, <2>1 DEF Coherent, Unbooked, Addressed, Settles, Current, OnTarget,
                                IInv, TypeOK
    <2>3. QED
      BY <1>1, <1>2, <1>5, <2>1, <2>2, LocalStep DEF Steps
  <1>6. QED
    BY <1>4, <1>5 DEF BeginSettle, ReadBalance

LEMMA CompensateReads ==
    ASSUME IInv, NEW p \in Requests, BeginCompensate(p) \/ FindCompensated(p)
    PROVE  IInv'
  <1>1. UNCHANGED <<row, version, resv, due, ledger, booked, settled, strayed, clobbered>>
    BY DEF BeginCompensate, FindCompensated, stored, history
  <1>2. due' \subseteq AllReservations /\ ledger' \in Nat
    BY <1>1 DEF IInv, TypeOK
  <1>3. Coherent(p, pc[p], local[p]) /\ local[p] \in Local
    BY DEF IInv, TypeOK
  <1> DEFINE L(q) == [Blank EXCEPT !.op = "compensate", !.qty = q,
                                   !.seenRow = version, !.delta = Received(q)]
  <1>4. ASSUME NEW q \in Quantities, Goto(p, "verify", L(q))
        PROVE  IInv'
    <2> DEFINE l == L(q)
    <2>1. /\ l.op = "compensate" /\ l.target = None /\ l.delta = Received(q)
          /\ l.batch = {} /\ l.seenRow = version /\ l.away = FALSE
      BY DEF Blank
    <2>2. l \in Local
      BY BlankType, DeltaTypes, QuantityType DEF Local, Kinds, IInv, TypeOK
    <2>3. l.delta.reserved = 0 /\ None \notin AllReservations /\ None \notin Foreign
      BY <2>1, DirectDeltas, QuantityType, InventoryAssumption DEF AllReservations
    <2>4. Coherent(p, "verify", l)
      <3> HIDE DEF l
      <3>1. QED
        BY <2>1, <2>3 DEF Coherent, Unbooked, Addressed, Settles, Current, OnTarget,
                          IInv, TypeOK
    <2>5. QED
      BY <1>1, <1>2, <1>4, <2>2, <2>4, LocalStep DEF Steps
  <1>5. ASSUME NEW q \in Quantities, NEW r \in AllReservations, NEW elsewhere \in BOOLEAN,
               Goto(p, "find", [L(q) EXCEPT !.target = r, !.away = elsewhere])
        PROVE  IInv'
    <2> DEFINE l == [L(q) EXCEPT !.target = r, !.away = elsewhere]
    <2>1. /\ l.op = "compensate" /\ l.target = r /\ l.delta = Received(q)
          /\ l.batch = {} /\ l.seenRow = version
      BY DEF Blank
    <2>2. l \in Local
      BY BlankType, DeltaTypes, QuantityType DEF Local, Kinds, IInv, TypeOK
    <2>3. l.delta.reserved = 0
      BY <2>1, DirectDeltas, QuantityType
    <2>4. Coherent(p, "find", l)
      <3> HIDE DEF l
      <3>1. QED
        BY <2>1, <2>3 DEF Coherent, Unbooked, Addressed, Settles, Current, OnTarget,
                          IInv, TypeOK
    <2>5. QED
      BY <1>1, <1>2, <1>5, <2>2, <2>4, LocalStep DEF Steps
  <1>6. CASE FindCompensated(p)
    <2> DEFINE r == local[p].target
    <2>1. /\ pc[p] = "find" /\ local[p].op = "compensate" /\ r \in AllReservations
          /\ local[p].delta.reserved = 0 /\ local[p].seenRow =< version
          /\ \A item \in local[p].batch : resv[item[1]].status # "NONE"
      BY <1>3, <1>6 DEF FindCompensated, Coherent, Settles, Current
    <2>2. CASE resv[r].status = "ACTIVE"
      <3> DEFINE m == Reading(local[p], "compensate", r, resv[r].version)
      <3>1. "compensate" \in Settling /\ resv[r].version \in Nat
        BY <2>1 DEF Settling, IInv, TypeOK, Reservation
      <3>2. /\ m \in Local /\ m.op = "compensate" /\ m.seenRow = local[p].seenRow
            /\ Settles("check", m) /\ Addressed("check", m)
        BY <1>3, <2>1, <2>2, <3>1, ReadingType
      <3>3. Coherent(p, "check", m)
        <4> HIDE DEF m
        <4>1. QED
          BY <2>1, <3>2 DEF Coherent, Unbooked, Current
      <3>4. QED
        BY <1>1, <1>2, <1>6, <2>2, <3>2, <3>3, LocalStep DEF Steps, FindCompensated
    <2>3. CASE resv[r].status # "ACTIVE" /\ local[p].away
      BY <1>1, <1>2, <1>6, <2>3, AnswerStep DEF FindCompensated, RestoreUnits
    <2>4. CASE resv[r].status # "ACTIVE" /\ ~local[p].away
      <3> DEFINE m == [local[p] EXCEPT !.target = None]
      <3>1. /\ m \in Local /\ m.op = local[p].op /\ m.target = None
            /\ m.qty = local[p].qty /\ m.delta = local[p].delta /\ m.batch = local[p].batch
            /\ m.seenRow = local[p].seenRow /\ m.away = local[p].away
        BY <1>3 DEF Local
      <3>2. Coherent(p, "verify", m)
        <4> HIDE DEF m
        <4>1. None \notin AllReservations /\ None \notin Foreign
          BY InventoryAssumption DEF AllReservations
        <4>2. QED
          BY <2>1, <2>4, <3>1, <4>1 DEF Coherent, Unbooked, Addressed, Settles, Current, OnTarget
      <3>3. QED
        BY <1>1, <1>2, <1>6, <2>4, <3>1, <3>2, LocalStep
           DEF Steps, FindCompensated, RestoreUnits
    <2>5. QED
      BY <2>2, <2>3, <2>4
  <1>7. QED
    BY <1>4, <1>5, <1>6 DEF BeginCompensate

LEMMA SweepReads ==
    ASSUME IInv, NEW p \in Requests, BeginSweep(p) \/ SweepNext(p)
    PROVE  IInv'
  <1>1. UNCHANGED <<row, version, resv, due, ledger, booked, settled, strayed, clobbered>>
    BY DEF BeginSweep, SweepNext, stored, history
  <1>2. due' \subseteq AllReservations /\ ledger' \in Nat
    BY <1>1 DEF IInv, TypeOK
  <1>3. Coherent(p, pc[p], local[p]) /\ local[p] \in Local
    BY DEF IInv, TypeOK
  <1>4. CASE BeginSweep(p)
    <2>1. PICK listed \in {due, AllReservations} :
             Goto(p, "sweep",
                  [Blank EXCEPT !.op = "expire",
                                !.batch = {<<r, resv[r].version>> :
                                              r \in {s \in listed : resv[s].status = "ACTIVE"}}])
      BY <1>4 DEF BeginSweep
    <2> DEFINE B == {<<r, resv[r].version>> : r \in {s \in listed : resv[s].status = "ACTIVE"}}
               m == [Blank EXCEPT !.op = "expire", !.batch = B]
    <2>2. B \subseteq AllReservations \X Nat
      BY DEF IInv, TypeOK, Reservation
    <2>3. \A item \in B : resv[item[1]].status # "NONE"
      OBVIOUS
    <2> HIDE DEF B
    <2>4. /\ m.op = "expire" /\ m.seenRow = 0 /\ m.batch = B /\ m \in Local
      BY <2>2, BlankType DEF Blank, Local, Kinds
    <2>5. Coherent(p, "sweep", m)
      <3> HIDE DEF m
      <3>1. QED
        BY <2>3, <2>4 DEF Coherent, Unbooked, Addressed, Settles, Current, IInv, TypeOK
    <2>6. Goto(p, "sweep", m)
      BY <2>1 DEF B
    <2>7. QED
      BY <1>1, <1>2, <2>4, <2>5, <2>6, LocalStep DEF Steps
  <1>5. CASE Answer(p)
    BY <1>1, <1>2, <1>5, AnswerStep
  <1>6. ASSUME pc[p] = "sweep", NEW item \in local[p].batch,
               Goto(p, "check",
                    Reading([local[p] EXCEPT !.away = item[1] \in Foreign, !.seenRow = version,
                                             !.batch = @ \ {item}],
                            "expire", item[1], item[2]))
        PROVE  IInv'
    <2> DEFINE a == [local[p] EXCEPT !.away = item[1] \in Foreign]
               n == [a EXCEPT !.seenRow = version, !.batch = @ \ {item}]
               m == Reading(n, "expire", item[1], item[2])
    <2>1. /\ item[1] \in AllReservations /\ item[2] \in Nat /\ resv[item[1]].status # "NONE"
          /\ \A i \in local[p].batch : resv[i[1]].status # "NONE"
          /\ version \in Nat /\ "expire" \in Settling
      BY <1>3 DEF Local, Coherent, Settles, Settling, IInv, TypeOK
    <2>2. /\ n \in Local /\ n.seenRow = version /\ n.batch = local[p].batch \ {item}
          /\ (item[1] \in Foreign => n.away)
      <3>1. (item[1] \in Foreign) \in BOOLEAN
        OBVIOUS
      <3>2. /\ a \in Local /\ (item[1] \in Foreign => a.away) /\ a.batch = local[p].batch
        BY <1>3, <3>1, ToldAway
      <3> HIDE DEF a
      <3>3. QED
        BY <2>1, <3>2 DEF Local
    <2>3. /\ \A i \in n.batch : resv[i[1]].status # "NONE"
          /\ n.seenRow =< version
      BY <2>1, <2>2
    <2>4. Goto(p, "check", m)
      BY <1>6
    <2> HIDE DEF n
    <2>5. /\ m \in Local /\ m.op = "expire" /\ m.seenRow = version
          /\ Settles("check", m) /\ Addressed("check", m)
      BY <2>1, <2>2, <2>3, ReadingType
    <2> HIDE DEF m
    <2>6. Coherent(p, "check", m)
      BY <2>5 DEF Coherent, Unbooked, Current, IInv, TypeOK
    <2>7. QED
      BY <1>1, <1>2, <2>4, <2>5, <2>6, LocalStep DEF Steps
  <1>7. QED
    BY <1>4, <1>5, <1>6 DEF SweepNext

\* Trying again, going on with the sweep, or answering with the error.
LEMMA RejectedStep ==
    ASSUME IInv, NEW p \in Requests, Rejected(p),
           local[p].op = "reserve" => pc[p] = "verify",
           UNCHANGED <<row, version, resv, due, ledger, booked, settled, strayed, clobbered>>
    PROVE  IInv'
  <1>1. due' \subseteq AllReservations /\ ledger' \in Nat
    BY DEF IInv, TypeOK
  <1>2. Coherent(p, pc[p], local[p]) /\ local[p] \in Local
    BY DEF IInv, TypeOK
  <1>3. CASE local[p].op = "reserve" /\ Goto(p, "attempt", local[p])
    <2>1. Coherent(p, "attempt", local[p])
      BY <1>2, <1>3 DEF Coherent, Unbooked, Addressed, Settles, Current
    <2>2. QED
      BY <1>1, <1>2, <1>3, <2>1, LocalStep DEF Steps
  <1>4. CASE Proceed(p)
    BY <1>1, <1>4, ProceedStep
  <1>5. QED
    BY <1>3, <1>4 DEF Rejected

LEMMA CheckStep ==
    ASSUME IInv, NEW p \in Requests, Check(p)
    PROVE  IInv'
  <1>1. UNCHANGED <<row, version, resv, due, ledger, booked, settled, strayed, clobbered>>
    BY DEF Check, stored, history
  <1>2. due' \subseteq AllReservations /\ ledger' \in Nat
    BY <1>1 DEF IInv, TypeOK
  <1>3. Coherent(p, pc[p], local[p]) /\ local[p] \in Local /\ pc[p] = "check"
    BY DEF IInv, TypeOK, Check
  <1>4. CASE Goto(p, "mark", local[p]) /\ resv[local[p].target].status = "ACTIVE"
    <2>1. local[p].target \in Reservations => settled[local[p].target] = "none"
      BY <1>3, <1>4 DEF Coherent, Settles, OnTarget, IInv, ReservationsBooked
    <2>2. Coherent(p, "mark", local[p])
      BY <1>3, <1>4, <2>1 DEF Coherent, Unbooked, Addressed, Settles, Current, OnTarget
    <2>3. QED
      BY <1>1, <1>2, <1>3, <1>4, <2>2, LocalStep DEF Steps
  <1>5. CASE Rejected(p)
    <2>1. local[p].op # "reserve"
      BY <1>3 DEF Coherent, Settles, OnTarget, Settling
    <2>2. QED
      BY <1>1, <1>5, <2>1, RejectedStep
  <1>6. QED
    BY <1>4, <1>5 DEF Check

LEMMA VerifyStep ==
    ASSUME IInv, NEW p \in Requests, Verify(p)
    PROVE  IInv'
  <1> DEFINE n == Apply(row, local[p].delta)
  <1>1. UNCHANGED <<row, version, resv, due, ledger, booked, settled, strayed, clobbered>>
    BY DEF Verify, stored, history
  <1>2. due' \subseteq AllReservations /\ ledger' \in Nat
    BY <1>1 DEF IInv, TypeOK
  <1>3. /\ Coherent(p, pc[p], local[p]) /\ local[p] \in Local /\ pc[p] = "verify"
        /\ local[p].delta \in Delta /\ row \in Row
    BY DEF IInv, TypeOK, Verify, Local
  <1>4. CASE Valid(n) /\ Goto(p, "store", [local[p] EXCEPT !.next = n])
    <2> DEFINE m == [local[p] EXCEPT !.next = n]
    <2>1. n \in Row
      BY <1>3, <1>4, AppliedRow
    <2> HIDE DEF n
    <2>2. /\ m \in Local /\ m.op = local[p].op /\ m.target = local[p].target
          /\ m.qty = local[p].qty /\ m.delta = local[p].delta /\ m.batch = local[p].batch
          /\ m.seenRow = local[p].seenRow /\ m.next = n /\ m.away = local[p].away
      BY <1>3, <2>1 DEF Local
    <2>3. m.next = Apply(row, m.delta)
      BY <2>2 DEF n
    <2>4. Coherent(p, "store", m)
      <3> HIDE DEF m
      <3>1. QED
        BY <1>3, <1>4, <2>2, <2>3 DEF Coherent, Unbooked, Addressed, Settles, Current, OnTarget
    <2>5. QED
      BY <1>1, <1>2, <1>4, <2>2, <2>4, LocalStep DEF Steps
  <1>5. CASE Rejected(p)
    BY <1>1, <1>3, <1>5, RejectedStep
  <1>6. QED
    BY <1>4, <1>5 DEF Verify

LEMMA DirectSteps ==
    ASSUME IInv, NEW p \in Requests, NEW d \in Delta, d.reserved = 0, BeginDirect(p, d)
    PROVE  IInv'
  <1> DEFINE m == [Blank EXCEPT !.op = "direct", !.seenRow = version, !.delta = d]
  <1>1. UNCHANGED <<row, version, resv, due, ledger, booked, settled, strayed, clobbered>>
    BY DEF BeginDirect, stored, history
  <1>2. due' \subseteq AllReservations /\ ledger' \in Nat
    BY <1>1 DEF IInv, TypeOK
  <1>3. /\ m \in Local /\ m.op = "direct" /\ m.delta = d /\ m.seenRow = version
        /\ m.batch = {} /\ m.away = FALSE /\ m.target = None
    BY BlankType DEF Blank, Local, Kinds, IInv, TypeOK
  <1>4. Coherent(p, "verify", m)
    <2> HIDE DEF m
    <2>1. None \notin Foreign
      BY InventoryAssumption DEF AllReservations
    <2>2. QED
      BY <1>3, <2>1 DEF Coherent, Unbooked, Addressed, Settles, Current, OnTarget, Settling,
                        IInv, TypeOK
  <1>5. QED
    BY <1>1, <1>2, <1>3, <1>4, LocalStep DEF BeginDirect, Steps

-----------------------------------------------------------------------------
(* The actions that write: one lemma each.                                 *)

\* A new version makes every other request's reading of the balance out of date.
LEMMA VersionMoves ==
    ASSUME IInv, NEW q \in Requests, version' = version + 1
    PROVE  Current(pc[q], local[q])'
           <=> /\ local'[q].seenRow =< version'
               /\ pc'[q] = "store" => Valid(local'[q].next)
               /\ pc'[q] = "store" /\ local'[q].seenRow = version'
                  => local'[q].next = Apply(row', local'[q].delta)
               /\ pc'[q] \in {"mark", "verify", "store"} /\ local'[q].seenRow = version'
                     /\ OnTarget(local'[q]) /\ local'[q].target \in Reservations
                  => settled'[local'[q].target] = "none"
  BY DEF Current, OnTarget

LEMMA CreateStep ==
    ASSUME IInv, NEW p \in Requests, CreateReservation(p)
    PROVE  IInv'
  <1>1. /\ UNCHANGED <<row, version, due, ledger, booked, settled, strayed, clobbered>>
        /\ resv' = [resv EXCEPT ![p] = Booked(local[p].qty, local[p].cart)]
        /\ pc' = [pc EXCEPT ![p] = "record"] /\ local' = [local EXCEPT ![p] = local[p]]
        /\ pc[p] = "create"
    BY DEF CreateReservation, history, Goto
  <1>2. /\ Coherent(p, pc[p], local[p]) /\ local[p] \in Local
        /\ p \in Reservations /\ Reservations \subseteq AllReservations
    BY DEF IInv, TypeOK, Reservations, AllReservations
  <1>3. local' = local
    BY <1>1 DEF IInv, TypeOK
  <1>4. /\ resv[p].status = "NONE" /\ settled[p] = "none" /\ booked[p] = local[p].qty
        /\ local[p].qty \in Quantities
    BY <1>1, <1>2 DEF Coherent, Unbooked
  <1> DEFINE b == Booked(local[p].qty, local[p].cart)
  <1>5. b \in Reservation /\ b.status = "ACTIVE" /\ b.qty = local[p].qty
    BY <1>2 DEF Booked, Reservation, Statuses, Local
  <1> HIDE DEF b
  <1>6. resv' = [resv EXCEPT ![p] = b] /\ resv \in [AllReservations -> Reservation]
    BY <1>1 DEF b, IInv, TypeOK
  <1>7. TypeOK'
    BY <1>1, <1>3, <1>5, <1>6 DEF IInv, TypeOK, Steps
  <1>8. ReservationsBooked'
    BY <1>1, <1>2, <1>4, <1>5, <1>6, QuantityType DEF IInv, ReservationsBooked
  <1>9. ASSUME NEW q \in Requests PROVE Coherent(q, pc[q], local[q])'
    <2>1. Coherent(q, pc[q], local[q]) /\ local[q] \in Local /\ q \in Reservations
      BY DEF IInv, TypeOK, Reservations
    <2>2. pc'[q] = IF q = p THEN "record" ELSE pc[q]
      BY <1>1 DEF IInv, TypeOK
    <2>3. Unbooked(q, pc[q], local[q])'
      BY <1>1, <1>3, <1>6, <2>1, <2>2 DEF Coherent, Unbooked
    <2>4. Settles(pc[q], local[q])'
      <3>1. \A r \in AllReservations : resv[r].status # "NONE" => resv'[r] = resv[r]
        BY <1>4, <1>6
      <3>2. \A item \in local[q].batch : item[1] \in AllReservations
        BY <2>1 DEF Local
      <3>3. QED
        BY <1>3, <2>1, <2>2, <3>1, <3>2 DEF Coherent, Settles, OnTarget
    <2>5. Current(pc[q], local[q])' /\ Addressed(pc[q], local[q])'
      BY <1>1, <1>3, <2>1, <2>2 DEF Coherent, Current, Addressed, OnTarget
    <2>6. QED
      BY <2>3, <2>4, <2>5 DEF Coherent
  <1>10. QED
    BY <1>1, <1>7, <1>8, <1>9 DEF IInv

LEMMA MarkStep ==
    ASSUME IInv, NEW p \in Requests, Mark(p)
    PROVE  IInv'
  <1> DEFINE t == local[p].target
  <1>1. /\ UNCHANGED <<row, version, due, ledger, booked, settled, strayed, clobbered>>
        /\ resv' = [resv EXCEPT ![t].status = SettledStatus(local[p].op),
                                ![t].version = @ + 1]
        /\ GiveUnitsBack(p) /\ pc[p] = "mark"
    BY DEF Mark, history
  <1>2. Coherent(p, pc[p], local[p]) /\ local[p] \in Local
    BY DEF IInv, TypeOK
  <1>3. PICK s \in {"verify", "sweep", "done"}, l \in Local :
            /\ pc' = [pc EXCEPT ![p] = s] /\ local' = [local EXCEPT ![p] = l]
            /\ s = "verify" => l = local[p] /\ ~local[p].away
            /\ s # "verify" => /\ l.op \in {"none", "expire"} /\ l.seenRow = 0
                               /\ l.batch \subseteq local[p].batch
    <2> DEFINE b == [Blank EXCEPT !.op = "expire", !.batch = local[p].batch]
    <2>1. /\ b \in Local /\ b.op = "expire" /\ b.seenRow = 0 /\ b.batch = local[p].batch
          /\ Blank \in Local /\ Blank.op = "none" /\ Blank.seenRow = 0 /\ Blank.batch = {}
      <3>1. Blank \in Local /\ Blank.op = "none" /\ Blank.seenRow = 0 /\ Blank.batch = {}
        BY BlankType DEF Blank
      <3>2. QED
        BY <1>2, <3>1 DEF Local, Kinds
    <2>2. \/ Goto(p, "verify", local[p]) /\ ~local[p].away
          \/ Goto(p, "sweep", b)
          \/ Goto(p, "done", Blank)
      BY <1>1, Zenon DEF GiveUnitsBack, Proceed, Answer
    <2> HIDE DEF b
    <2>3. QED
      BY <1>2, <2>1, <2>2 DEF Goto
  <1>4. t \in AllReservations /\ local[p].op \in Settling /\ resv[t].status # "NONE"
    BY <1>1, <1>2 DEF Coherent, Settles, OnTarget
  <1>5. SettledStatus(local[p].op) \in Statuses \ {"NONE", "ACTIVE"}
    BY <1>4 DEF SettledStatus, Statuses, Settling
  <1>6. /\ resv' \in [AllReservations -> Reservation]
        /\ resv'[t].status = SettledStatus(local[p].op) /\ resv'[t].qty = resv[t].qty
        /\ \A r \in AllReservations : r # t => resv'[r] = resv[r]
        /\ Reservations \subseteq AllReservations
    BY <1>1, <1>4, <1>5 DEF IInv, TypeOK, Reservation, AllReservations
  <1> HIDE DEF t
  <1>7. TypeOK'
    BY <1>1, <1>3, <1>6 DEF IInv, TypeOK, Steps
  <1>8. ReservationsBooked'
    BY <1>1, <1>4, <1>5, <1>6 DEF IInv, ReservationsBooked
  <1>9. ASSUME NEW q \in Requests PROVE Coherent(q, pc[q], local[q])'
    <2>1. Coherent(q, pc[q], local[q]) /\ local[q] \in Local /\ q \in Reservations
      BY DEF IInv, TypeOK, Reservations
    <2>2. /\ pc'[q] = IF q = p THEN s ELSE pc[q]
          /\ local'[q] = IF q = p THEN l ELSE local[q]
      BY <1>3 DEF IInv, TypeOK
    <2>3. \A r \in AllReservations :
             /\ resv'[r].qty = resv[r].qty
             /\ resv'[r].status = "NONE" <=> resv[r].status = "NONE"
             /\ resv'[r].status = "ACTIVE" => resv[r].status = "ACTIVE"
      BY <1>4, <1>5, <1>6
    <2>4. Unbooked(q, pc[q], local[q])'
      <3>1. CASE q = p
        <4>1. l.op # "reserve"
          BY <1>3, <1>4, <3>1 DEF Settling
        <4>2. QED
          BY <2>2, <3>1, <4>1 DEF Unbooked
      <3>2. CASE q # p
        <4>1. pc'[q] = pc[q] /\ Unbooked(q, pc[q], local[q])
          BY <2>1, <2>2, <3>2 DEF Coherent
        <4>2. QED
          BY <1>1, <1>6, <2>1, <2>2, <2>3, <3>2, <4>1 DEF Unbooked
      <3>3. QED
        BY <3>1, <3>2
    <2>5. Settles(pc[q], local[q])'
      <3>1. \A item \in local[q].batch : item[1] \in AllReservations
        BY <2>1 DEF Local
      <3>2. CASE q = p /\ s = "verify"
        <4>1. /\ local[q].target = t /\ resv'[t].status # "ACTIVE" /\ OnTarget(local[q])
              /\ pc[q] = "mark" /\ pc'[q] = "verify" /\ local'[q] = local[q]
          BY <1>1, <1>3, <1>4, <1>5, <1>6, <2>2, <3>2 DEF OnTarget, t
        <4>2. Settles("mark", local[q])
          BY <2>1, <4>1 DEF Coherent
        <4>3. QED
          BY <1>4, <2>3, <3>1, <4>1, <4>2 DEF Settles, OnTarget
      <3>3. CASE q = p /\ s # "verify"
        <4>1. \A item \in l.batch : resv[item[1]].status # "NONE"
          BY <1>3, <2>1, <3>3 DEF Coherent, Settles
        <4>2. QED
          BY <1>3, <2>2, <2>3, <3>1, <3>3, <4>1 DEF Settles
      <3>4. CASE q # p
        <4>1. pc'[q] = pc[q] /\ Settles(pc[q], local[q])
          BY <2>1, <2>2, <3>4 DEF Coherent
        <4>2. local[q].target \in AllReservations \/ ~OnTarget(local[q])
          BY DEF OnTarget
        <4>3. QED
          BY <2>2, <2>3, <3>1, <3>4, <4>1, <4>2 DEF Settles, OnTarget
      <3>5. QED
        BY <3>2, <3>3, <3>4
    <2>6. Current(pc[q], local[q])' /\ Addressed(pc[q], local[q])'
      <3>1. CASE q = p /\ s = "verify"
        BY <1>1, <1>3, <2>1, <2>2, <3>1 DEF Coherent, Current, Addressed, OnTarget
      <3>2. CASE q = p /\ s # "verify"
        BY <1>1, <1>3, <2>2, <3>2 DEF Current, Addressed, IInv, TypeOK
      <3>3. CASE q # p
        BY <1>1, <2>1, <2>2, <3>3 DEF Coherent, Current, Addressed, OnTarget
      <3>4. QED
        BY <3>1, <3>2, <3>3
    <2>7. QED
      BY <2>4, <2>5, <2>6 DEF Coherent
  <1>10. QED
    BY <1>1, <1>7, <1>8, <1>9 DEF IInv

LEMMA StoreStep ==
    ASSUME IInv, NEW p \in Requests, Store(p)
    PROVE  IInv'
  <1> DEFINE l == local[p]
             s == IF l.op = "reserve" THEN "create" ELSE "record"
  <1>1. /\ UNCHANGED <<resv, due, ledger>> /\ row' = l.next /\ version' = version + 1
        /\ pc' = [pc EXCEPT ![p] = s] /\ local' = [local EXCEPT ![p] = local[p]]
        /\ pc[p] = "store" /\ Noted(p)
    BY DEF Store, Goto
  <1>2. Coherent(p, pc[p], l) /\ l \in Local /\ p \in Reservations
    BY DEF IInv, TypeOK, Reservations
  <1>3. local' = local
    BY <1>1 DEF IInv, TypeOK
  <1>4. /\ booked' = IF l.op = "reserve" THEN [booked EXCEPT ![p] = l.qty] ELSE booked
        /\ settled' = IF OnTarget(l) /\ l.target \in Reservations
                      THEN [settled EXCEPT ![l.target] =
                                IF l.op = "commit" THEN "sold" ELSE "freed"]
                      ELSE settled
        /\ clobbered' \in BOOLEAN /\ strayed' \in {strayed, strayed + l.qty}
    BY <1>1 DEF Noted, OnTarget, AllReservations, IInv, TypeOK
  <1>5. /\ OnTarget(l) => resv[l.target].status \notin {"NONE", "ACTIVE"} /\ l.op # "reserve"
        /\ l.op = "reserve" => resv[p].status = "NONE" /\ settled[p] = "none"
                               /\ l.qty \in Quantities
    BY <1>1, <1>2 DEF Coherent, Unbooked, Addressed, Settles, OnTarget, Settling
  <1>6. TypeOK'
    <2>1. l.next \in Row /\ l.qty \in Nat /\ version + 1 \in Nat
      BY <1>2 DEF IInv, TypeOK, Local
    <2>2. booked' \in [Reservations -> Nat]
      BY <1>4, <2>1 DEF IInv, TypeOK
    <2>3. settled' \in [Reservations -> {"none", "sold", "freed"}]
      BY <1>4 DEF IInv, TypeOK
    <2>4. pc' \in [Requests -> Steps] /\ strayed' \in Nat
      BY <1>1, <1>4, <2>1 DEF IInv, TypeOK, Steps
    <2>5. QED
      BY <1>1, <1>3, <1>4, <2>1, <2>2, <2>3, <2>4 DEF IInv, TypeOK
  <1>7. Valid(row)'
    BY <1>1, <1>2 DEF Coherent, Current, Valid, Free
  <1>8. ReservationsBooked'
    BY <1>1, <1>4, <1>5 DEF IInv, TypeOK, ReservationsBooked, OnTarget
  <1>9. ASSUME NEW q \in Requests PROVE Coherent(q, pc[q], local[q])'
    <2>1. Coherent(q, pc[q], local[q]) /\ local[q] \in Local /\ q \in Reservations
      BY DEF IInv, TypeOK, Reservations
    <2>2. pc'[q] = IF q = p THEN s ELSE pc[q]
      BY <1>1 DEF IInv, TypeOK
    <2>3. Unbooked(q, pc[q], local[q])'
      <3>1. CASE q = p
        BY <1>1, <1>2, <1>3, <1>4, <1>5, <2>2, <3>1 DEF Coherent, Unbooked, IInv, TypeOK
      <3>2. CASE q # p
        <4>1. booked'[q] = booked[q]
          BY <1>4, <3>2 DEF IInv, TypeOK
        <4>2. resv[q].status = "NONE" => settled'[q] = settled[q]
          BY <1>4, <1>5 DEF IInv, TypeOK
        <4>3. QED
          BY <1>1, <1>3, <2>1, <2>2, <3>2, <4>1, <4>2 DEF Coherent, Unbooked
      <3>3. QED
        BY <3>1, <3>2
    <2>4. Settles(pc[q], local[q])' /\ Addressed(pc[q], local[q])'
      BY <1>1, <1>3, <2>1, <2>2 DEF Coherent, Settles, Addressed, OnTarget
    <2>5. Current(pc[q], local[q])'
      <3>1. local[q].seenRow =< version /\ version \in Nat /\ local[q].seenRow \in Nat
        BY <2>1 DEF Coherent, Current, IInv, TypeOK, Local
      <3>2. pc'[q] = "store" => Valid(local[q].next)
        BY <2>1, <2>2 DEF Coherent, Current
      <3>3. QED
        BY <1>1, <1>3, <3>1, <3>2, VersionMoves
    <2>6. QED
      BY <2>3, <2>4, <2>5 DEF Coherent
  <1>10. QED
    BY <1>6, <1>7, <1>8, <1>9 DEF IInv

LEMMA ThresholdsStep ==
    ASSUME IInv, NEW p \in Requests, UpdateThresholds(p)
    PROVE  IInv'
  <1>1. /\ UNCHANGED <<row, resv, due, ledger, booked, settled, strayed, clobbered>>
        /\ version' = version + 1
        /\ pc' = [pc EXCEPT ![p] = "done"] /\ local' = [local EXCEPT ![p] = Blank]
    BY DEF UpdateThresholds, history, Answer, Goto
  <1>2. TypeOK'
    BY <1>1, BlankType DEF IInv, TypeOK, Steps
  <1>3. Valid(row)' /\ ReservationsBooked'
    BY <1>1 DEF IInv, ReservationsBooked
  <1>4. ASSUME NEW q \in Requests PROVE Coherent(q, pc[q], local[q])'
    <2>1. Coherent(q, pc'[q], local'[q]) /\ version \in Nat /\ local'[q] \in Local
      BY <1>1, BlankCoherent, BlankType DEF IInv, TypeOK
    <2>2. /\ Unbooked(q, pc[q], local[q])' /\ Settles(pc[q], local[q])'
          /\ Addressed(pc[q], local[q])'
      BY <1>1, <2>1 DEF Coherent, Unbooked, Addressed, Settles
    <2>3. Current(pc[q], local[q])'
      <3>1. local'[q].seenRow =< version /\ local'[q].seenRow \in Nat
        BY <2>1 DEF Coherent, Current, Local
      <3>2. pc'[q] = "store" => Valid(local'[q].next)
        BY <2>1 DEF Coherent, Current
      <3>3. QED
        BY <1>1, <2>1, <3>1, <3>2, VersionMoves
    <2>4. QED
      BY <2>2, <2>3 DEF Coherent
  <1>5. QED
    BY <1>2, <1>3, <1>4 DEF IInv

LEMMA MovementStep ==
    ASSUME IInv, NEW p \in Requests, RecordMovement(p)
    PROVE  IInv'
  <1>1. /\ UNCHANGED <<row, version, resv, due, booked, settled, strayed, clobbered>>
        /\ Proceed(p) /\ ledger' = ledger + 1
    BY DEF RecordMovement, history
  <1>2. due' \subseteq AllReservations /\ ledger' \in Nat
    BY <1>1 DEF IInv, TypeOK
  <1>3. QED
    BY <1>1, <1>2, ProceedStep

LEMMA ElapseStep ==
    ASSUME IInv, NEW r \in AllReservations, Elapse(r)
    PROVE  IInv'
  <1>1. /\ UNCHANGED <<row, version, resv, ledger, pc, local, booked, settled, strayed, clobbered>>
        /\ due' = due \cup {r}
    BY DEF Elapse, history
  <1>2. TypeOK' /\ Valid(row)' /\ ReservationsBooked'
    BY <1>1 DEF IInv, TypeOK, ReservationsBooked
  <1>3. ASSUME NEW p \in Requests PROVE Coherent(p, pc[p], local[p])'
    BY <1>1 DEF IInv, Coherent, Unbooked, Addressed, Settles, Current
  <1>4. QED
    BY <1>2, <1>3 DEF IInv

LEMMA FailStep ==
    ASSUME IInv, NEW p \in Requests, Fail(p)
    PROVE  IInv'
  <1>1. UNCHANGED <<row, version, resv, due, ledger, booked, settled, strayed, clobbered>>
    BY DEF Fail, stored, history
  <1>2. due' \subseteq AllReservations /\ ledger' \in Nat
    BY <1>1 DEF IInv, TypeOK
  <1>3. Answer(p) \/ Proceed(p)
    BY DEF Fail
  <1>4. QED
    BY <1>1, <1>2, <1>3, AnswerStep, ProceedStep

LEMMA StutterStep ==
    ASSUME IInv, UNCHANGED vars
    PROVE  IInv'
  <1>1. /\ UNCHANGED <<row, version, resv, due, ledger, pc, local>>
        /\ UNCHANGED <<booked, settled, strayed, clobbered>>
    BY DEF vars
  <1>2. TypeOK' /\ Valid(row)' /\ ReservationsBooked'
    BY <1>1 DEF IInv, TypeOK, ReservationsBooked
  <1>3. ASSUME NEW p \in Requests PROVE Coherent(p, pc[p], local[p])'
    BY <1>1 DEF IInv, Coherent, Unbooked, Addressed, Settles, Current
  <1>4. QED
    BY <1>2, <1>3 DEF IInv

\* Receiving, adjusting, quarantining, taking back, inspecting, restocking, sending to
\* another warehouse and counting.
LEMMA BeginDirectSteps ==
    ASSUME IInv, NEW p \in Requests,
           \/ ReceiveStock(p) \/ AdjustStock(p) \/ QuarantineStock(p)
           \/ ReturnIntake(p) \/ InspectReturn(p) \/ RestockReturn(p)
           \/ TransferStock(p) \/ SubmitCount(p)
    PROVE  IInv'
  <1>1. ASSUME ReceiveStock(p) \/ RestockReturn(p) PROVE IInv'
    <2>1. PICK q \in Quantities : BeginDirect(p, Received(q))
      BY <1>1 DEF ReceiveStock, RestockReturn
    <2>2. QED
      BY <2>1, QuantityType, DeltaTypes, DirectDeltas, DirectSteps
  <1>2. ASSUME AdjustStock(p) PROVE IInv'
    <2>1. PICK type \in Adjustments, n \in Quantities \cup {0 - q : q \in Quantities} :
              BeginDirect(p, Adjusted(type, n))
      BY <1>2 DEF AdjustStock
    <2>2. n \in Int
      BY QuantityType
    <2>3. QED
      BY <2>1, <2>2, DeltaTypes, DirectDeltas, DirectSteps
  <1>3. ASSUME QuarantineStock(p) PROVE IInv'
    <2>1. PICK action \in QuarantineActions, q \in Quantities :
              BeginDirect(p, Quarantined(action, q))
      BY <1>3 DEF QuarantineStock
    <2>2. QED
      BY <2>1, QuantityType, DeltaTypes, DirectDeltas, DirectSteps
  <1>4. ASSUME ReturnIntake(p) PROVE IInv'
    <2>1. PICK disposition \in Dispositions, q \in Quantities :
              BeginDirect(p, Returned(disposition, q))
      BY <1>4 DEF ReturnIntake
    <2>2. QED
      BY <2>1, QuantityType, DeltaTypes, DirectDeltas, DirectSteps
  <1>5. ASSUME InspectReturn(p) PROVE IInv'
    <2>1. PICK verdict \in Verdicts, q \in Quantities :
              BeginDirect(p, Inspected(verdict, q))
      BY <1>5 DEF InspectReturn
    <2>2. QED
      BY <2>1, QuantityType, DeltaTypes, DirectDeltas, DirectSteps
  <1>6. ASSUME TransferStock(p) PROVE IInv'
    <2>1. PICK q \in Quantities : BeginDirect(p, Shipped(q))
      BY <1>6 DEF TransferStock
    <2>2. QED
      BY <2>1, QuantityType, DeltaTypes, DirectDeltas, DirectSteps
  <1>7. ASSUME SubmitCount(p) PROVE IInv'
    <2>1. PICK n \in Quantities \cup {0} :
              \/ Answer(p) /\ UNCHANGED <<stored, history>>
              \/ BeginDirect(p, Counted(n, row.onHand))
      BY <1>7 DEF SubmitCount
    <2>2. CASE Answer(p) /\ UNCHANGED <<stored, history>>
      <3>1. UNCHANGED <<row, version, resv, due, ledger, booked, settled, strayed, clobbered>>
        BY <2>2 DEF stored, history
      <3>2. due' \subseteq AllReservations /\ ledger' \in Nat
        BY <3>1 DEF IInv, TypeOK
      <3>3. QED
        BY <2>2, <3>1, <3>2, AnswerStep
    <2>3. CASE BeginDirect(p, Counted(n, row.onHand))
      <3>1. n \in Int /\ row.onHand \in Int
        BY QuantityType DEF IInv, TypeOK, Row
      <3>2. Counted(n, row.onHand) \in Delta /\ Counted(n, row.onHand).reserved = 0
        BY <3>1 DEF Counted, Columns, Delta
      <3>3. QED
        BY <2>3, <3>2, DirectSteps
    <2>4. QED
      BY <2>1, <2>2, <2>3
  <1>8. QED
    BY <1>1, <1>2, <1>3, <1>4, <1>5, <1>6, <1>7

-----------------------------------------------------------------------------
(* The invariant is inductive.                                             *)

LEMMA InitInv == Init => IInv
  <1> SUFFICES ASSUME Init PROVE IInv
    OBVIOUS
  <1> DEFINE c == Cardinality(Prior)
  <1>1. c \in Nat /\ c =< OpeningStock /\ OpeningStock \in Nat
    BY InventoryAssumption, FS_CardinalityType
  <1> HIDE DEF c
  <1>2. row = Columns(OpeningStock, c, 0, 0)
    BY DEF Init, c
  <1>3. row \in Row /\ Valid(row)
    BY <1>1, <1>2 DEF Columns, Row, Valid, Free
  <1>4. /\ \A r \in AllReservations :
               resv[r] = IF r \in Prior \cup Foreign THEN Booked(1, None) ELSE Absent
        /\ resv \in [AllReservations -> Reservation]
    <2>1. Absent \in Reservation /\ Booked(1, None) \in Reservation
      BY DEF Absent, Booked, Reservation, Statuses
    <2>2. QED
      BY <2>1 DEF Init
  <1>5. TypeOK
    BY <1>3, <1>4, BlankType DEF Init, TypeOK, Steps
  <1>6. ReservationsBooked
    BY <1>4, InventoryAssumption
       DEF ReservationsBooked, Init, Absent, Booked, AllReservations
  <1>7. ASSUME NEW p \in Requests PROVE Coherent(p, pc[p], local[p])
    <2>1. p \in Reservations /\ p \in AllReservations /\ p \notin Prior /\ p \notin Foreign
      BY InventoryAssumption DEF Reservations, AllReservations
    <2>2. /\ pc[p] = "idle" /\ local[p] = Blank /\ resv[p].status = "NONE"
          /\ settled[p] = "none" /\ booked[p] = 0
      BY <1>4, <2>1 DEF Init, Absent
    <2>3. QED
      BY <1>5, <2>2 DEF Coherent, Unbooked, Addressed, Settles, Current, Blank, OnTarget,
                        Settling, TypeOK
  <1>8. QED
    BY <1>3, <1>5, <1>6, <1>7 DEF IInv

LEMMA NextInv == IInv /\ [Next]_vars => IInv'
  <1> SUFFICES ASSUME IInv, [Next]_vars PROVE IInv'
    OBVIOUS
  <1>1. ASSUME NEW p \in Requests, Begin(p) PROVE IInv'
    <2>1. CASE BeginReserve(p)
      BY <2>1, ReserveSteps
    <2>2. CASE \E op \in {"commit", "release"} : BeginSettle(p, op)
      BY <2>2, SettleReads DEF Settling
    <2>3. CASE BeginCompensate(p)
      BY <2>3, CompensateReads
    <2>4. CASE BeginSweep(p)
      BY <2>4, SweepReads
    <2>5. CASE \/ ReceiveStock(p) \/ AdjustStock(p) \/ QuarantineStock(p)
               \/ ReturnIntake(p) \/ InspectReturn(p) \/ RestockReturn(p)
               \/ TransferStock(p) \/ SubmitCount(p)
      BY <2>5, BeginDirectSteps
    <2>6. CASE UpdateThresholds(p)
      BY <2>6, ThresholdsStep
    <2>7. QED
      BY <1>1, <2>1, <2>2, <2>3, <2>4, <2>5, <2>6 DEF Begin
  <1>2. ASSUME NEW p \in Requests, Step(p) PROVE IInv'
    <2>1. CASE TryReserve(p)
      BY <2>1, ReserveSteps
    <2>2. CASE CreateReservation(p)
      BY <2>2, CreateStep
    <2>3. CASE ReadBalance(p)
      BY <2>3, SettleReads
    <2>4. CASE FindCompensated(p)
      BY <2>4, CompensateReads
    <2>5. CASE SweepNext(p)
      BY <2>5, SweepReads
    <2>6. CASE Check(p)
      BY <2>6, CheckStep
    <2>7. CASE Mark(p)
      BY <2>7, MarkStep
    <2>8. CASE Verify(p)
      BY <2>8, VerifyStep
    <2>9. CASE Store(p)
      BY <2>9, StoreStep
    <2>10. CASE RecordMovement(p)
      BY <2>10, MovementStep
    <2>11. QED
      BY <1>2, <2>1, <2>2, <2>3, <2>4, <2>5, <2>6, <2>7, <2>8, <2>9, <2>10 DEF Step
  <1>3. ASSUME NEW p \in Requests, Fail(p) PROVE IInv'
    BY <1>3, FailStep
  <1>4. ASSUME NEW r \in AllReservations, Elapse(r) PROVE IInv'
    BY <1>4, ElapseStep
  <1>5. CASE Finished \/ UNCHANGED vars
    BY <1>5, StutterStep DEF Finished
  <1>6. QED
    BY <1>1, <1>2, <1>3, <1>4, <1>5 DEF Next

LEMMA Invariance == Spec => []IInv
  BY InitInv, NextInv, PTL DEF Spec

-----------------------------------------------------------------------------
(* The theorems.                                                           *)

\* The variables keep their types, the values a Store is about to write included: in
\* particular no interleaving makes the service write a negative column.
THEOREM TypeCorrect == Spec => []TypeOK
  BY Invariance, PTL DEF IInv

\* The service's core invariant holds for any number of requests and any mix of
\* operations, with failures between queries and even when writers overwrite each other.
THEOREM StockSafe == Spec => []StockNonNegative
  BY Invariance, PTL DEF IInv, StockNonNegative

\* No order of queries of any requests leaves an ACTIVE reservation without units that
\* were booked for it and that nobody has given back or sold.
THEOREM Backed == Spec => []ActiveIsBacked
  <1>1. IInv => ActiveIsBacked
    BY DEF IInv, ReservationsBooked, ActiveIsBacked, Held
  <1>2. QED
    BY <1>1, Invariance, PTL

-----------------------------------------------------------------------------
(* The service implements the reservation book.                            *)

\* The book and the service do the same arithmetic on a row.
LEMMA SameRows ==
    /\ Book!Row = Row
    /\ \A r : Book!Valid(r) = Valid(r) /\ Book!Free(r) = Free(r)
    /\ \A r, d : Book!Apply(r, d) = Apply(r, d)
    /\ \A q : /\ Book!Reserved(q) = Reserved(q)
              /\ Book!Freed(q) = Freed(q)
              /\ Book!Sold(q) = Sold(q)
  <1>1. Book!Row = Row
    BY DEF Book!Row, Row
  <1>2. \A r : Book!Valid(r) = Valid(r) /\ Book!Free(r) = Free(r)
    BY DEF Book!Valid, Valid, Book!Free, Free
  <1>3. \A r, d : Book!Apply(r, d) = Apply(r, d)
    BY DEF Book!Apply, Apply, Book!Columns, Columns
  <1>4. \A q : /\ Book!Reserved(q) = Reserved(q)
               /\ Book!Freed(q) = Freed(q)
               /\ Book!Sold(q) = Sold(q)
    BY DEF Book!Reserved, Reserved, Book!Freed, Freed, Book!Sold, Sold,
           Book!Columns, Columns
  <1>5. QED
    BY <1>1, <1>2, <1>3, <1>4

\* What a reservation holds is a number of units, and settling it holds none.
LEMMA HeldType ==
    ASSUME TypeOK
    PROVE  Held \in [Reservations -> Nat]
  BY DEF TypeOK, Held

\* Every action but Store leaves the book as it is.
LEMMA BookStutter ==
    ASSUME UNCHANGED <<row, booked, settled, strayed, clobbered>>
    PROVE  UNCHANGED Book!bookVars
  BY DEF Book!bookVars, Held

\* A Store that finds the version it verified is one step of the book.
LEMMA StoreIsBookStep ==
    ASSUME IInv, IInv', NEW p \in Requests, Store(p)
    PROVE  Book!BookNext
  <1> DEFINE l == local[p]
  <1>1. /\ Coherent(p, "store", l) /\ l \in Local /\ p \in Reservations
        /\ row' = l.next /\ version \in Nat /\ Foreign \cap Reservations = {}
    BY InventoryAssumption DEF IInv, TypeOK, Reservations, Store
  <1>2. /\ booked' = IF l.op = "reserve" THEN [booked EXCEPT ![p] = l.qty] ELSE booked
        /\ settled' = IF OnTarget(l) /\ l.target \in Reservations
                      THEN [settled EXCEPT ![l.target] =
                                IF l.op = "commit" THEN "sold" ELSE "freed"]
                      ELSE settled
        /\ strayed' = IF l.op = "compensate" /\ l.target \in Foreign
                      THEN strayed + l.qty ELSE strayed
        /\ clobbered' = (clobbered \/ version # l.seenRow)
    BY DEF Store, Noted, OnTarget, AllReservations
  <1>3. /\ booked \in [Reservations -> Nat] /\ row \in Row /\ row' \in Row
        /\ strayed' \in Nat
        /\ settled \in [Reservations -> {"none", "sold", "freed"}]
        /\ Valid(row') /\ Held' \in [Reservations -> Nat]
    <2>1. TypeOK /\ TypeOK' /\ Valid(row)'
      BY DEF IInv
    <2>2. Held' \in [Reservations -> Nat]
      BY <2>1 DEF TypeOK, Held
    <2>3. QED
      BY <2>1, <2>2 DEF TypeOK, Valid, Free
  <1> HIDE DEF l
  <1>4. CASE version # l.seenRow
    BY <1>2, <1>3, <1>4, SameRows DEF Book!BookNext, Book!Overwrite
  <1>5. CASE version = l.seenRow
    <2>1. row' = Apply(row, l.delta) /\ (~clobbered)' = ~clobbered
      BY <1>1, <1>2, <1>5 DEF Coherent, Current
    <2>2. CASE l.op = "reserve"
      <3>1. /\ booked[p] = 0 /\ settled[p] = "none" /\ l.qty \in Quantities
            /\ l.delta = Reserved(l.qty) /\ ~OnTarget(l)
        BY <1>1, <2>2 DEF Coherent, Unbooked, OnTarget, Settling
      <3>2. Held[p] = 0
        BY <1>1, <3>1 DEF Held
      <3>3. Free(row) >= l.qty
        <4>1. Valid(Apply(row, Reserved(l.qty))) /\ l.qty \in Nat
          BY <1>3, <2>1, <3>1, QuantityType
        <4>2. QED
          BY <1>3, <4>1 DEF Valid, Free, Apply, Reserved, Columns, Row
      <3>4. Held' = [Held EXCEPT ![p] = l.qty] /\ strayed' = strayed
        BY <1>1, <1>2, <1>3, <2>2, <3>1 DEF Held
      <3>5. Book!Hold(p)
        BY <2>1, <3>1, <3>2, <3>3, <3>4, SameRows DEF Book!Hold
      <3>6. QED
        BY <1>1, <1>3, <2>1, <3>5, SameRows DEF Book!BookNext
    <2>3. CASE OnTarget(l) /\ l.target \in Reservations
      <3> DEFINE t == l.target
      <3>1. /\ t \in Reservations /\ l.op \in Settling /\ l.op # "reserve"
            /\ resv[t].status # "NONE" /\ l.qty = resv[t].qty
            /\ l.delta = SettleDelta(l.op, l.qty) /\ settled[t] = "none"
            /\ strayed' = strayed
        BY <1>1, <1>2, <1>5, <2>3 DEF Coherent, Settles, Current, OnTarget, Settling
      <3>2. booked[t] = l.qty /\ l.qty > 0
        BY <3>1 DEF IInv, ReservationsBooked, AllReservations
      <3>3. Held[t] = l.qty
        BY <3>1, <3>2 DEF Held
      <3>4. Held' = [Held EXCEPT ![t] = 0]
        BY <1>2, <1>3, <2>3, <3>1 DEF Held
      <3>5. CASE l.op = "commit"
        <4>1. Book!Sell(t)
          BY <2>1, <3>1, <3>2, <3>3, <3>4, <3>5, SameRows DEF Book!Sell, SettleDelta
        <4>2. QED
          BY <1>3, <2>1, <3>1, <4>1, SameRows DEF Book!BookNext
      <3>6. CASE l.op # "commit"
        <4>1. Book!Release(t)
          BY <2>1, <3>1, <3>2, <3>3, <3>4, <3>6, SameRows DEF Book!Release, SettleDelta
        <4>2. QED
          BY <1>3, <2>1, <3>1, <4>1, SameRows DEF Book!BookNext
      <3>7. QED
        BY <3>5, <3>6
    <2>4. CASE OnTarget(l) /\ l.target \notin Reservations
      <3>1. /\ l.target \in Foreign /\ l.op = "compensate" /\ resv[l.target].status # "NONE"
            /\ l.qty = resv[l.target].qty /\ l.delta = Freed(l.qty)
        BY <1>1, <2>4 DEF Coherent, Addressed, Settles, SettleDelta, OnTarget, AllReservations
      <3>2. l.qty \in Nat /\ l.qty > 0
        BY <1>1, <3>1 DEF Local, IInv, ReservationsBooked, AllReservations
      <3>3. l.qty =< row.reserved
        BY <1>3, <2>1, <3>1, <3>2 DEF Valid, Apply, Freed, Columns, Row
      <3>4. l.qty \in 1 .. row.reserved
        BY <1>3, <3>2, <3>3 DEF Row
      <3>5. Held' = Held /\ strayed' = strayed + l.qty
        BY <1>1, <1>2, <2>4, <3>1 DEF Held
      <3>6. Book!Stray
        BY <2>1, <3>1, <3>4, <3>5, SameRows DEF Book!Stray
      <3>7. QED
        BY <1>3, <2>1, <3>6, SameRows DEF Book!BookNext
    <2>5. CASE l.op # "reserve" /\ ~OnTarget(l)
      <3>1. l.delta.reserved = 0 /\ strayed' = strayed
        BY <1>1, <1>2, <2>5 DEF Coherent, Settles, OnTarget, Settling, AllReservations
      <3>2. row'.reserved = row.reserved
        BY <1>3, <2>1, <3>1 DEF Apply, Columns, Row
      <3>3. Held' = Held
        BY <1>2, <2>5 DEF Held
      <3>4. Book!Move
        BY <3>1, <3>2, <3>3 DEF Book!Move
      <3>5. QED
        BY <1>3, <2>1, <3>4, SameRows DEF Book!BookNext
    <2>6. QED
      BY <2>2, <2>3, <2>4, <2>5
  <1>6. QED
    BY <1>4, <1>5

LEMMA StepImplements == IInv /\ IInv' /\ [Next]_vars => [Book!BookNext]_Book!bookVars
  <1> SUFFICES ASSUME IInv, IInv', [Next]_vars PROVE [Book!BookNext]_Book!bookVars
    OBVIOUS
  <1>1. ASSUME NEW p \in Requests, Begin(p)
        PROVE  UNCHANGED <<row, booked, settled, strayed, clobbered>>
    BY <1>1 DEF Begin, BeginReserve, BeginSettle, BeginCompensate, BeginSweep, ReceiveStock,
                AdjustStock, QuarantineStock, ReturnIntake, InspectReturn, RestockReturn,
                TransferStock, SubmitCount, Answer, UpdateThresholds, BeginDirect, stored, history
  <1>2. ASSUME NEW p \in Requests, Step(p), ~Store(p)
        PROVE  UNCHANGED <<row, booked, settled, strayed, clobbered>>
    BY <1>2 DEF Step, TryReserve, CreateReservation, ReadBalance, FindCompensated, SweepNext,
                Check, Mark, Verify, RecordMovement, stored, history
  <1>3. ASSUME NEW p \in Requests, Fail(p)
        PROVE  UNCHANGED <<row, booked, settled, strayed, clobbered>>
    BY <1>3 DEF Fail, stored, history
  <1>4. ASSUME NEW r \in AllReservations, Elapse(r)
        PROVE  UNCHANGED <<row, booked, settled, strayed, clobbered>>
    BY <1>4 DEF Elapse, history
  <1>5. CASE Finished \/ UNCHANGED vars
    BY <1>5, BookStutter DEF Finished, vars
  <1>6. ASSUME NEW p \in Requests, Store(p) PROVE Book!BookNext
    BY <1>6, StoreIsBookStep
  <1>7. QED
    BY <1>1, <1>2, <1>3, <1>4, <1>5, <1>6, BookStutter DEF Next

LEMMA InitImplements == Init => Book!BookInit
  <1>1. Init => IInv /\ ~clobbered /\ strayed = 0
    BY InitInv DEF Init
  <1>2. QED
    BY <1>1, HeldType, SameRows DEF IInv, TypeOK, Book!BookInit

\* The service with all its queries, retries and failures implements the reservation
\* book: while no write clobbered another, each write of the balance is one hold, one
\* sale, one release of exactly what was held, a movement that holds nothing, or takes
\* the units of another balance's reservation off this one, which are counted.
THEOREM Refinement == Spec => ImplementsBook
  <1>1. Init => Book!BookInit
    BY InitImplements
  <1>2. Spec => []IInv
    BY Invariance
  <1>3. IInv /\ IInv' /\ [Next]_vars => [Book!BookNext]_Book!bookVars
    BY StepImplements
  <1>4. QED
    BY <1>1, <1>2, <1>3, PTL DEF Spec, ImplementsBook, Book!Spec

-----------------------------------------------------------------------------
(* The reserved column is the sum of what reservations hold: a fact about  *)
(* the steps of the book, and so one about those of the service.           *)

Conserved == ~clobbered => row.reserved + strayed = Total(Held, Reservations)

LEMMA FiniteReservations == IsFiniteSet(Reservations)
  BY InventoryAssumption, FiniteRequests, FS_Union DEF Reservations

\* As the lemmas on sums speak of it.
LEMMA ConservedIs == Conserved <=> ReservedConservation
  <1> DEFINE P(g) == g = [s \in SUBSET Reservations |->
                             IF s = {} THEN 0
                             ELSE LET x == CHOOSE x \in s : TRUE
                                  IN  Held[x] + g[s \ {x}]]
             h == CHOOSE g : P(g)
             sum == MapThenSumSet(LAMBDA r : Held[r], Reservations)
  <1>1. sum = h[Reservations]
    BY Zenon DEF MapThenSumSet, MapThenFoldSet
  <1>2. ASSUME NEW g
        PROVE  P(g) <=> IsSum(g, Held, Reservations)
    BY DEF IsSum, Weighed
  <1>3. IsFiniteSet(Reservations)
    BY FiniteReservations
  <1>4. P(h)
    <2>1. \E g : P(g)
      <3> HIDE DEF P
      <3>1. QED
        BY <1>2, <1>3, SumExists
    <2> HIDE DEF P
    <2>2. QED
      BY <2>1, Zenon
  <1>5. sum = Total(Held, Reservations)
    <2>1. Reservations \in SUBSET Reservations
      OBVIOUS
    <2> HIDE DEF P, h, sum
    <2>2. QED
      BY <1>1, <1>2, <1>3, <1>4, <2>1, TotalOf
  <1>6. QED
    BY <1>5 DEF Conserved, ReservedConservation

LEMMA InitConserved == Init => Conserved
  <1> SUFFICES ASSUME Init
               PROVE  row.reserved + strayed = Total(Held, Reservations)
    BY DEF Conserved
  <1>1. row.reserved + strayed = Cardinality(Prior)
    BY InventoryAssumption, FS_CardinalityType DEF Init, Columns
  <1>2. \A r \in Reservations : Held[r] = IF r \in Prior THEN 1 ELSE 0
    BY DEF Init, Held
  <1>3. Prior \in SUBSET Reservations
    BY DEF Reservations
  <1>4. QED
    BY <1>1, <1>2, <1>3, FiniteReservations, TotalCounts

LEMMA NextConserved ==
    ASSUME IInv, Conserved, [Book!BookNext]_Book!bookVars
    PROVE  Conserved'
  <1>0. TypeOK /\ row \in Row /\ row.reserved \in Nat /\ strayed \in Nat
    BY DEF IInv, TypeOK, Row
  <1>1. CASE UNCHANGED Book!bookVars
    BY <1>1 DEF Conserved, Book!bookVars
  <1>2. CASE Book!Overwrite
    BY <1>2 DEF Conserved, Book!Overwrite
  <1>3. CASE (~clobbered)' = ~clobbered /\ Book!Move
    BY <1>3 DEF Conserved, Book!Move
  <1>4. ASSUME NEW r \in Reservations, NEW n \in Nat, (~clobbered)' = ~clobbered,
               Held' = [Held EXCEPT ![r] = n], strayed' = strayed,
               row'.reserved = row.reserved + n - Held[r]
        PROVE  Conserved'
    <2>1. SUFFICES ASSUME ~clobbered'
                   PROVE  row'.reserved + strayed' = Total(Held', Reservations)
      BY DEF Conserved
    <2>2. row.reserved + strayed = Total(Held, Reservations)
      BY <1>4, <2>1 DEF Conserved
    <2>3. /\ Total(Held', Reservations) = Total(Held, Reservations) + n - Held[r]
          /\ Total(Held, Reservations) \in Int /\ Held[r] \in Nat
      <3>1. Held \in [Reservations -> Nat]
        BY <1>0, HeldType
      <3>2. Held \in [Reservations -> Int] /\ n \in Int /\ Held[r] \in Nat
        BY <3>1
      <3>3. /\ Total([Held EXCEPT ![r] = n], Reservations)
                  = Total(Held, Reservations) + n - Held[r]
            /\ Total(Held, Reservations) \in Int
        BY <3>2, FiniteReservations, TotalMoves
      <3>4. QED
        BY <1>4, <3>2, <3>3
    <2>4. QED
      BY <1>0, <1>4, <2>2, <2>3
  <1>5. ASSUME NEW r \in Reservations, (~clobbered)' = ~clobbered, Book!Hold(r)
        PROVE  Conserved'
    <2>1. PICK q \in Quantities : /\ Held[r] = 0
                                  /\ row' = Apply(row, Reserved(q))
                                  /\ Held' = [Held EXCEPT ![r] = q]
                                  /\ strayed' = strayed
      BY <1>5, SameRows DEF Book!Hold
    <2>2. q \in Nat /\ row'.reserved = row.reserved + q - Held[r]
      BY <1>0, <2>1, QuantityType DEF Apply, Reserved, Columns
    <2>3. QED
      BY <1>4, <1>5, <2>1, <2>2
  <1>6. ASSUME NEW r \in Reservations, (~clobbered)' = ~clobbered,
               Book!Release(r) \/ Book!Sell(r)
        PROVE  Conserved'
    <2>1. /\ row' = Apply(row, Freed(Held[r])) \/ row' = Apply(row, Sold(Held[r]))
          /\ Held' = [Held EXCEPT ![r] = 0] /\ Held[r] \in Nat /\ strayed' = strayed
      BY <1>0, <1>6, SameRows, HeldType DEF Book!Release, Book!Sell
    <2>2. row'.reserved = row.reserved + 0 - Held[r]
      BY <1>0, <2>1 DEF Apply, Freed, Sold, Columns
    <2>3. QED
      BY <1>4, <1>6, <2>1, <2>2
  <1>7. ASSUME (~clobbered)' = ~clobbered, Book!Stray
        PROVE  Conserved'
    <2>1. PICK q \in 1 .. row.reserved : /\ row' = Apply(row, Freed(q))
                                         /\ Held' = Held
                                         /\ strayed' = strayed + q
      BY <1>7, SameRows DEF Book!Stray
    <2>2. q \in Nat /\ row'.reserved = row.reserved - q
      BY <1>0, <2>1 DEF Apply, Freed, Columns
    <2>3. row'.reserved + strayed' = row.reserved + strayed
      BY <1>0, <2>1, <2>2
    <2>4. QED
      BY <1>7, <2>1, <2>3 DEF Conserved
  <1>8. QED
    BY <1>1, <1>2, <1>3, <1>5, <1>6, <1>7 DEF Book!BookNext

\* As long as no write clobbered another, the reserved column is exactly what was booked
\* and not settled, less the units that compensations took off for reservations of other
\* balances, through retries, duplicate settlements and failures half-way.
THEOREM Conservation == Spec => []ReservedConservation
  <1>1. Init => Conserved
    BY InitConserved
  <1>2. Spec => []IInv
    BY Invariance
  <1>3. IInv /\ IInv' /\ [Next]_vars => [Book!BookNext]_Book!bookVars
    BY StepImplements
  <1>4. IInv /\ Conserved /\ [Book!BookNext]_Book!bookVars => Conserved'
    BY NextConserved
  <1>5. Conserved => ReservedConservation
    BY ConservedIs
  <1>6. QED
    BY <1>1, <1>2, <1>3, <1>4, <1>5, PTL DEF Spec
=============================================================================
