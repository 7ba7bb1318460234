----------------------------- MODULE Inventory ------------------------------
(***************************************************************************)
(* Concurrent requests against one stock balance and the reservations      *)
(* booked on it.  No request runs in a database transaction: every awaited *)
(* query is a step of its own, other requests run between any two of them, *)
(* and a request may die after any of them.                                *)
(*                                                                         *)
(* atomicUpdate is two steps, as in the code: Verify reads the row,        *)
(* compares its version with the version the request read earlier and      *)
(* checks the new values; Store writes those values by primary key alone.  *)
(* reservationRepo.commit/release/expire are two steps as well: Check and  *)
(* Mark.  A request is served once, so the set of requests bounds a run.   *)
(*                                                                         *)
(* Reservations of other balances matter too: a compensation releases the  *)
(* reservation it is given, whichever balance that one is booked on.  Of a *)
(* request about another balance only the reservation rows it writes are   *)
(* modelled.                                                               *)
(***************************************************************************)
EXTENDS StockRow, FiniteSetsExt

CONSTANTS
    Requests,      \* HTTP requests; a reservation is named by the request that creates it
    Prior,         \* reservations of one unit that exist when the model starts
    Foreign,       \* reservations of one unit booked on another balance
    Carts,         \* cart references a reserve request may carry
    None,          \* no reference, no reservation
    Quantities,    \* quantities a request may ask for
    OpeningStock,  \* onHand when the model starts
    MaxAttempts,   \* maxRetries of the reserve loop
    Tolerance,     \* the variance of a count that needs no approval
    Operations,    \* the operations requests may call
    MayFail        \* whether a query may throw or the process die between steps

Reservations == Prior \cup Requests

AllReservations == Reservations \cup Foreign

ASSUME InventoryAssumption ==
    /\ IsFiniteSet(Prior)
    /\ Prior \cap Requests = {}
    /\ Foreign \cap Reservations = {}
    /\ None \notin Carts \cup AllReservations
    /\ Quantities \subseteq Nat \ {0}
    /\ OpeningStock \in Nat
    /\ Cardinality(Prior) =< OpeningStock
    /\ MaxAttempts \in Nat \ {0}
    /\ Tolerance \in Nat
    /\ MayFail \in BOOLEAN

ASSUME FiniteRequests == IsFiniteSet(Requests)

VARIABLES
    row,        \* the columns of the stock balance
    version,    \* its version column
    resv,       \* reservation rows
    due,        \* reservations whose expiresAt has passed
    ledger,     \* rows appended to the stock movement ledger
    pc,         \* the query each request is about to make
    local,      \* what each request holds in memory
    booked,     \* history: units a reservation added to the reserved column
    settled,    \* history: how a reservation's units left the reserved column
    strayed,    \* history: units of foreign reservations taken off this row
    clobbered   \* history: some Store overwrote a version it had not verified

stored  == <<row, version, resv, due, ledger>>
history == <<booked, settled, strayed, clobbered>>
vars    == <<row, version, resv, due, ledger, pc, local, booked, settled, strayed, clobbered>>

-----------------------------------------------------------------------------
Statuses == {"NONE", "ACTIVE", "COMMITTED", "RELEASED", "EXPIRED"}

Reservation == [status : Statuses, version : Nat, qty : Nat, cart : Carts \cup {None}]

Absent == [status |-> "NONE", version |-> 0, qty |-> 0, cart |-> None]
Booked(q, cart) == [status |-> "ACTIVE", version |-> 1, qty |-> q, cart |-> cart]

Steps == {"idle", "attempt", "create", "find", "balance", "check", "mark",
          "verify", "store", "record", "sweep", "done"}

Kinds == {"none", "reserve", "commit", "release", "compensate", "expire", "direct"}

Settling == {"commit", "release", "compensate", "expire"}

\* away: the request is about another balance.
Local == [op : Kinds, away : BOOLEAN, target : AllReservations \cup {None},
          cart : Carts \cup {None}, qty : Nat, attempt : Nat, seenRow : Nat, seenResv : Nat,
          delta : Delta, next : Row, batch : SUBSET (AllReservations \X Nat)]

Blank == [op |-> "none", away |-> FALSE, target |-> None, cart |-> None, qty |-> 0,
          attempt |-> 0, seenRow |-> 0, seenResv |-> 0, delta |-> Nothing, next |-> Nothing,
          batch |-> {}]

Init ==
    /\ row = Columns(OpeningStock, Cardinality(Prior), 0, 0)
    /\ version = 1
    /\ resv = [r \in AllReservations |->
                  IF r \in Prior \cup Foreign THEN Booked(1, None) ELSE Absent]
    /\ due = {}
    /\ ledger = 0
    /\ pc = [p \in Requests |-> "idle"]
    /\ local = [p \in Requests |-> Blank]
    /\ booked = [r \in Reservations |-> IF r \in Prior THEN 1 ELSE 0]
    /\ settled = [r \in Reservations |-> "none"]
    /\ strayed = 0
    /\ clobbered = FALSE

-----------------------------------------------------------------------------
(* Control of a request.                                                   *)

Goto(p, step, l) ==
    /\ pc' = [pc EXCEPT ![p] = step]
    /\ local' = [local EXCEPT ![p] = l]

Answer(p) == Goto(p, "done", Blank)

Idle(p, operation) == pc[p] = "idle" /\ operation \in Operations

\* The sweep goes on with its next reservation, everybody else answers.
Proceed(p) ==
    IF local[p].op = "expire"
    THEN Goto(p, "sweep", [Blank EXCEPT !.op = "expire", !.batch = local[p].batch])
    ELSE Answer(p)

\* Variant: a refused write is tried again without reading the version afresh.
RejectedRetries(p) ==
    Goto(p, IF local[p].op = "reserve" THEN "attempt" ELSE "verify", local[p])

\* An error from Check or Verify: the reserve loop tries again; what one
\* reservation of a sweep throws is caught; other operations answer with the error.
Rejected(p) ==
    IF local[p].op = "reserve" /\ local[p].attempt < MaxAttempts
    THEN Goto(p, "attempt", local[p])
    ELSE Proceed(p)

-----------------------------------------------------------------------------
(* reserveStock                                                            *)

Unexpired(cart, q) ==
    {r \in Reservations : /\ resv[r].status = "ACTIVE"
                          /\ resv[r].qty = q
                          /\ resv[r].cart = cart
                          /\ r \notin due}

\* The idempotency lookup: a live reservation of the same cart and quantity is
\* returned as it is.
BeginReserve(p) ==
    /\ Idle(p, "reserve")
    /\ \E cart \in Carts \cup {None}, q \in Quantities :
          \/ /\ cart # None
             /\ Unexpired(cart, q) # {}
             /\ Answer(p)
          \/ /\ cart = None \/ Unexpired(cart, q) = {}
             /\ Goto(p, "attempt", [Blank EXCEPT !.op = "reserve", !.cart = cart, !.qty = q,
                                                 !.delta = Reserved(q)])
    /\ UNCHANGED <<stored, history>>

\* The head of the retry loop: read the balance and compare its available units.
TryReserve(p) ==
    /\ pc[p] = "attempt"
    /\ IF Available(row) < local[p].qty
       THEN Answer(p)
       ELSE Goto(p, "verify", [local[p] EXCEPT !.attempt = @ + 1, !.seenRow = version])
    /\ UNCHANGED <<stored, history>>

CreateReservation(p) ==
    /\ pc[p] = "create"
    /\ resv' = [resv EXCEPT ![p] = Booked(local[p].qty, local[p].cart)]
    /\ Goto(p, "record", local[p])
    /\ UNCHANGED <<row, version, due, ledger, history>>

-----------------------------------------------------------------------------
(* atomicUpdate                                                            *)

\* Variant: the new values are not checked before they are written.
VerifyVersionOnly(p) ==
    /\ pc[p] = "verify"
    /\ IF version = local[p].seenRow
       THEN Goto(p, "store", [local[p] EXCEPT !.next = Apply(row, local[p].delta)])
       ELSE Rejected(p)
    /\ UNCHANGED <<stored, history>>

Verify(p) ==
    LET next == Apply(row, local[p].delta)
    IN  /\ pc[p] = "verify"
        /\ IF version = local[p].seenRow /\ Valid(next)
           THEN Goto(p, "store", [local[p] EXCEPT !.next = next])
           ELSE Rejected(p)
        /\ UNCHANGED <<stored, history>>

\* The history: who booked units, whose units left, and how.
Noted(p) ==
    /\ booked' = IF local[p].op = "reserve"
                 THEN [booked EXCEPT ![p] = local[p].qty] ELSE booked
    /\ settled' = IF local[p].op \in Settling /\ local[p].target \in Reservations
                  THEN [settled EXCEPT ![local[p].target] =
                            IF local[p].op = "commit" THEN "sold" ELSE "freed"]
                  ELSE settled
    /\ strayed' = IF local[p].op = "compensate" /\ local[p].target \in Foreign
                  THEN strayed + local[p].qty ELSE strayed
    /\ clobbered' = (clobbered \/ version # local[p].seenRow)

Store(p) ==
    /\ pc[p] = "store"
    /\ row' = local[p].next
    /\ version' = version + 1
    /\ Noted(p)
    /\ Goto(p, IF local[p].op = "reserve" THEN "create" ELSE "record", local[p])
    /\ UNCHANGED <<resv, due, ledger>>

RecordMovement(p) ==
    /\ pc[p] = "record"
    /\ ledger' = ledger + 1
    /\ Proceed(p)
    /\ UNCHANGED <<row, version, resv, due, history>>

-----------------------------------------------------------------------------
(* commitReservation, releaseReservation, compensateInventory and the      *)
(* expiry sweep                                                            *)

\* Variant: a sale forgets to give the reserved units back.
SettleDeltaHolding(op, q) == IF op = "commit" THEN Columns(0 - q, 0, 0, 0) ELSE Freed(q)

SettleDelta(op, q) == IF op = "commit" THEN Sold(q) ELSE Freed(q)

\* Variant: a compensated reservation stays ACTIVE.
SettledStatusKept(op) == CASE op = "commit"     -> "COMMITTED"
                           [] op = "expire"     -> "EXPIRED"
                           [] op = "compensate" -> "ACTIVE"
                           [] OTHER             -> "RELEASED"

SettledStatus(op) == CASE op = "commit"  -> "COMMITTED"
                       [] op = "expire"  -> "EXPIRED"
                       [] OTHER          -> "RELEASED"

\* What a request remembers of the reservation it read.
Reading(l, op, r, seen) ==
    [l EXCEPT !.op = op, !.target = r, !.qty = resv[r].qty, !.seenResv = seen,
              !.delta = SettleDelta(op, resv[r].qty)]

BeginSettle(p, op) ==
    /\ Idle(p, op)
    /\ \E r \in AllReservations :
          /\ resv[r].status = "ACTIVE"
          /\ op = "commit" => r \notin due
          /\ Goto(p, "balance",
                  Reading([Blank EXCEPT !.away = r \in Foreign], op, r, resv[r].version))
    /\ UNCHANGED <<stored, history>>

ReadBalance(p) ==
    /\ pc[p] = "balance"
    /\ Goto(p, "check", [local[p] EXCEPT !.seenRow = version])
    /\ UNCHANGED <<stored, history>>

\* compensateInventory reads the balance its caller names first.  A reservation is
\* optional, and may be one of another balance.
BeginCompensate(p) ==
    /\ Idle(p, "compensate")
    /\ \E q \in Quantities :
          LET l == [Blank EXCEPT !.op = "compensate", !.qty = q,
                                 !.seenRow = version, !.delta = Received(q)]
          IN  \/ Goto(p, "verify", l)
              \/ \E r \in AllReservations, elsewhere \in BOOLEAN :
                    Goto(p, "find", [l EXCEPT !.target = r, !.away = elsewhere])
    /\ UNCHANGED <<stored, history>>

\* Without an ACTIVE reservation the units on hand are restored.
RestoreUnits(p) ==
    IF local[p].away THEN Answer(p) ELSE Goto(p, "verify", [local[p] EXCEPT !.target = None])

\* Variant: the reservation is released, yet units on hand are restored as without it.
FindCompensatedRestoring(p) ==
    LET r == local[p].target
    IN  /\ pc[p] = "find"
        /\ IF resv[r].status = "ACTIVE"
           THEN Goto(p, "check", [local[p] EXCEPT !.seenResv = resv[r].version])
           ELSE RestoreUnits(p)
        /\ UNCHANGED <<stored, history>>

\* An ACTIVE reservation is released instead of restoring units on hand.  Nobody asks
\* whether it is booked on the balance the request is about.
FindCompensated(p) ==
    LET r == local[p].target
    IN  /\ pc[p] = "find"
        /\ IF resv[r].status = "ACTIVE"
           THEN Goto(p, "check", Reading(local[p], "compensate", r, resv[r].version))
           ELSE RestoreUnits(p)
        /\ UNCHANGED <<stored, history>>

\* expireStaleReservations lists what it will expire: the reservations past the
\* cutoff, which a caller may set in the future.
BeginSweep(p) ==
    /\ Idle(p, "expire")
    /\ \E listed \in {due, AllReservations} :
          Goto(p, "sweep",
               [Blank EXCEPT !.op = "expire",
                             !.batch = {<<r, resv[r].version>> :
                                           r \in {s \in listed : resv[s].status = "ACTIVE"}}])
    /\ UNCHANGED <<stored, history>>

SweepNext(p) ==
    /\ pc[p] = "sweep"
    /\ \/ /\ local[p].batch = {}
          /\ Answer(p)
       \/ \E item \in local[p].batch :
             Goto(p, "check",
                  Reading([local[p] EXCEPT !.away = item[1] \in Foreign, !.seenRow = version,
                                           !.batch = @ \ {item}],
                          "expire", item[1], item[2]))
    /\ UNCHANGED <<stored, history>>

\* Variant: whether the reservation is still the one that was read is not checked.
CheckNothing(p) ==
    /\ pc[p] = "check"
    /\ Goto(p, "mark", local[p])
    /\ UNCHANGED <<stored, history>>

Check(p) ==
    LET r == local[p].target
    IN  /\ pc[p] = "check"
        /\ IF resv[r].version = local[p].seenResv /\ resv[r].status = "ACTIVE"
           THEN Goto(p, "mark", local[p])
           ELSE Rejected(p)
        /\ UNCHANGED <<stored, history>>

\* Of a balance that is not this one, the rest is not modelled.
GiveUnitsBack(p) == IF local[p].away THEN Proceed(p) ELSE Goto(p, "verify", local[p])

\* Variant: the version of the reservation moves, its status does not.
MarkVersionOnly(p) ==
    /\ pc[p] = "mark"
    /\ resv' = [resv EXCEPT ![local[p].target].version = @ + 1]
    /\ GiveUnitsBack(p)
    /\ UNCHANGED <<row, version, due, ledger, history>>

Mark(p) ==
    LET r == local[p].target
    IN  /\ pc[p] = "mark"
        /\ resv' = [resv EXCEPT ![r].status = SettledStatus(local[p].op),
                                ![r].version = @ + 1]
        /\ GiveUnitsBack(p)
        /\ UNCHANGED <<row, version, due, ledger, history>>

-----------------------------------------------------------------------------
(* Operations that change the balance alone                                *)

BeginDirect(p, delta) ==
    /\ Goto(p, "verify", [Blank EXCEPT !.op = "direct", !.seenRow = version, !.delta = delta])
    /\ UNCHANGED <<stored, history>>

ReceiveStock(p) ==
    /\ Idle(p, "receive")
    /\ \E q \in Quantities : BeginDirect(p, Received(q))

AdjustStock(p) ==
    /\ Idle(p, "adjust")
    /\ \E type \in Adjustments, n \in Quantities \cup {0 - q : q \in Quantities} :
          BeginDirect(p, Adjusted(type, n))

QuarantineStock(p) ==
    /\ Idle(p, "quarantine")
    /\ \E action \in QuarantineActions, q \in Quantities :
          /\ action # "QUARANTINE" => row.quarantined >= q
          /\ BeginDirect(p, Quarantined(action, q))

ReturnIntake(p) ==
    /\ Idle(p, "intake")
    /\ \E disposition \in Dispositions, q \in Quantities :
          BeginDirect(p, Returned(disposition, q))

InspectReturn(p) ==
    /\ Idle(p, "inspect")
    /\ \E verdict \in Verdicts, q \in Quantities :
          /\ row.quarantined >= q
          /\ BeginDirect(p, Inspected(verdict, q))

RestockReturn(p) ==
    /\ Idle(p, "restock")
    /\ \E q \in Quantities : BeginDirect(p, Received(q))

\* Units leave for another warehouse.  The record of the transfer stays in the memory of
\* the route that initiates transfers, where the route that receives them does not look:
\* a receipt is always refused.
TransferStock(p) ==
    /\ Idle(p, "transfer")
    /\ \E q \in Quantities :
          /\ Available(row) >= q
          /\ BeginDirect(p, Shipped(q))

\* A count of the shelf.  One that differs by more than the tolerance only leaves a record
\* to be approved, which the route that approves does not find.
SubmitCount(p) ==
    /\ Idle(p, "count")
    /\ \E n \in Quantities \cup {0} :
          IF Magnitude(n - row.onHand) > Tolerance
          THEN Answer(p) /\ UNCHANGED <<stored, history>>
          ELSE BeginDirect(p, Counted(n, row.onHand))

\* updateThresholds: no version is compared, and the version moves.
UpdateThresholds(p) ==
    /\ Idle(p, "thresholds")
    /\ version' = version + 1
    /\ Answer(p)
    /\ UNCHANGED <<row, resv, due, ledger, history>>

-----------------------------------------------------------------------------
(* Time and failures                                                       *)

Elapse(r) ==
    /\ resv[r].status = "ACTIVE"
    /\ r \notin due
    /\ due' = due \cup {r}
    /\ UNCHANGED <<row, version, resv, ledger, pc, local, history>>

\* A query throws or the process dies.  The sweep catches what one reservation throws.
Fail(p) ==
    /\ MayFail
    /\ pc[p] \notin {"idle", "done"}
    /\ Answer(p) \/ (pc[p] # "sweep" /\ Proceed(p))
    /\ UNCHANGED <<stored, history>>

Finished ==
    /\ \A p \in Requests : pc[p] = "done"
    /\ UNCHANGED vars

Begin(p) ==
    \/ BeginReserve(p)
    \/ \E op \in {"commit", "release"} : BeginSettle(p, op)
    \/ BeginCompensate(p)
    \/ BeginSweep(p)
    \/ ReceiveStock(p)
    \/ AdjustStock(p)
    \/ QuarantineStock(p)
    \/ ReturnIntake(p)
    \/ InspectReturn(p)
    \/ RestockReturn(p)
    \/ TransferStock(p)
    \/ SubmitCount(p)
    \/ UpdateThresholds(p)

Step(p) ==
    \/ TryReserve(p)
    \/ CreateReservation(p)
    \/ ReadBalance(p)
    \/ FindCompensated(p)
    \/ SweepNext(p)
    \/ Check(p)
    \/ Mark(p)
    \/ Verify(p)
    \/ Store(p)
    \/ RecordMovement(p)

Next ==
    \/ \E p \in Requests : Begin(p) \/ Step(p) \/ Fail(p)
    \/ \E r \in AllReservations : Elapse(r)
    \/ Finished

Spec == Init /\ [][Next]_vars

\* The event loop resumes a request when its query answers.
FairSpec == Spec /\ \A p \in Requests : WF_vars(Step(p))

-----------------------------------------------------------------------------
(* Properties                                                              *)

\* The types of the variables, and the values a Store is about to write.
TypeOK ==
    /\ row \in Row
    /\ version \in Nat
    /\ resv \in [AllReservations -> Reservation]
    /\ due \subseteq AllReservations
    /\ ledger \in Nat
    /\ pc \in [Requests -> Steps]
    /\ local \in [Requests -> Local]
    /\ booked \in [Reservations -> Nat]
    /\ settled \in [Reservations -> {"none", "sold", "freed"}]
    /\ strayed \in Nat
    /\ clobbered \in BOOLEAN

\* The service's core invariant: whatever interleaves, and even after a lost update,
\* no column of the balance is negative and no unit is promised twice by the row.
StockNonNegative == Valid(row)

\* The units each reservation holds in the reserved column: booked and not yet settled.
Held == [r \in Reservations |-> IF settled[r] = "none" THEN booked[r] ELSE 0]

\* Retries, duplicate commits, a commit racing the sweep and requests that die half-way
\* never make the reserved column drift from what was booked and not settled.  There are
\* two exceptions: a write that lands between another request's Verify and Store, and a
\* compensation of this balance that releases a reservation of another one, whose units,
\* and no others, are then missing from the column.
ReservedConservation ==
    ~clobbered =>
        row.reserved + strayed = MapThenSumSet(LAMBDA r : Held[r], Reservations)

\* An ACTIVE reservation of this balance always has units of its own that were booked
\* for it and that no request has given back or sold: it is created after they are booked
\* and leaves ACTIVE before they are freed, whichever of several settling requests gets
\* there first and wherever one of them dies.
ActiveIsBacked ==
    \A r \in Reservations : resv[r].status = "ACTIVE" => Held[r] = resv[r].qty

\* The documented accounting, as steps of the abstract book: while nothing was clobbered
\* every write of the balance is one atomic hold, sale, release or stock movement, or takes
\* off the units of a reservation that is not its own.
Book == INSTANCE ReservationBook WITH held <- Held, exact <- ~clobbered
ImplementsBook == Book!Spec

\* Every request is answered: the retry loop and the sweep both end.
RequestsAnswered == \A p \in Requests : pc[p] # "idle" ~> pc[p] = "done"

-----------------------------------------------------------------------------
(* What the documentation says and the code does not keep.                 *)

\* The units ACTIVE reservations hold between them.
ActiveUnits ==
    MapThenSumSet(LAMBDA r : IF resv[r].status = "ACTIVE" THEN resv[r].qty ELSE 0, Reservations)

\* "Overselling is mathematically impossible": live reservations never hold more
\* units than the warehouse can hand out.
NeverOversold == ActiveUnits =< row.onHand - row.damaged - row.quarantined

\* "Reserved: units locked in active buyer checkout sessions prior to TTL expiration":
\* once every request has been answered, the reserved column is what the ACTIVE
\* reservations hold.
ReservedIsActive ==
    (\A p \in Requests : pc[p] \in {"idle", "done"})
    => row.reserved = ActiveUnits
=============================================================================
