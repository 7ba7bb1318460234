------------------------------ MODULE Payments ------------------------------
(***************************************************************************)
(* One payment of an order: the gateway's events about it and its refunds. *)
(* PaymentReconciliationService applies events and refunds through         *)
(* PaymentRepository and books commissions through SettlementRepository;   *)
(* the public webhook route logs the same events through                   *)
(* PaymentMethodDiscoveryService.  Only the refund runs in a transaction,  *)
(* Read Committed.                                                         *)
(*                                                                         *)
(* A gateway delivers an event as often as it likes, in any order, with or *)
(* without an identifier.  A request whose process dies is one that takes  *)
(* no further step.  A row is named by the request that created it.        *)
(***************************************************************************)
EXTENDS Integers, FiniteSetsExt

CONSTANTS
    Requests,  \* requests to the two services
    Kinds,     \* what each request may be: "delivery", "callback", "refund"
    None,      \* no event, no key
    Captured,  \* the payment's amountPoisha
    Events,    \* events of the gateway
    Outcome,   \* the type of each event
    Unnamed,   \* events without an externalEventId
    Keys,      \* idempotency keys of refunds
    Groups     \* fulfillment groups of the order

Outcomes == {"PAYMENT_SUCCESS", "PAYMENT_FAILED", "OTHER"}

ASSUME PaymentAssumption ==
    /\ None \notin Events \cup Keys
    /\ Captured \in Nat \ {0}
    /\ Outcome \in [Events -> Outcomes]
    /\ Unnamed \subseteq Events
    /\ Groups \in Nat
    /\ Kinds \in [Requests -> SUBSET {"delivery", "callback", "refund"}]
    /\ IsFiniteSet(Requests)

VARIABLES
    status,      \* the payment's status
    refunds,     \* refund rows
    logs,        \* webhook log rows
    ledger,      \* commission rows, by the event's request and the group
    transitions, \* requests that appended to the order's history
    steps,       \* the step each request is about to take
    memory,      \* what each request remembers
    before,      \* history: the requests that were answered before each began
    applied      \* history: the requests that applied their event to the payment

requestVars == <<steps, memory, before>>
paymentVars == <<status, refunds, logs, ledger, transitions, requestVars, applied>>

-----------------------------------------------------------------------------
Blank == [event |-> None, group |-> 0, amount |-> 0, key |-> None, seen |-> 0]

Init ==
    /\ status \in {"PENDING", "CAPTURED"}
    /\ refunds = <<>>
    /\ logs = <<>>
    /\ ledger = {}
    /\ transitions = {}
    /\ steps = [r \in Requests |-> "idle"]
    /\ memory = [r \in Requests |-> Blank]
    /\ before = [r \in Requests |-> {}]
    /\ applied = {}

Answered == {r \in Requests : steps[r] = "done"}

Goto(r, step, m) ==
    /\ steps' = [steps EXCEPT ![r] = step]
    /\ memory' = [memory EXCEPT ![r] = m]

Enter(r, kind, step, m) ==
    /\ steps[r] = "idle" /\ kind \in Kinds[r]
    /\ Goto(r, step, m)
    /\ before' = [before EXCEPT ![r] = Answered]

Advance(r, step, m) == Goto(r, step, m) /\ UNCHANGED before

Answer(r) == Advance(r, "done", Blank)

\* A function with one more row.
With(f, r, row) == [x \in DOMAIN f \cup {r} |-> IF x = r THEN row ELSE f[x]]

Logged == DOMAIN logs

Refunded == DOMAIN refunds

-----------------------------------------------------------------------------
(* handleGatewayWebhook                                                    *)

\* Variant: every event is new.
NoneKnown(e) == {}

\* The rows an event's identifier is found in, whatever their status.
Known(e) == IF e \in Unnamed THEN {} ELSE {l \in Logged : logs[l].event = e}

BeginDelivery(r) ==
    /\ \E e \in Events :
          IF Known(e) # {} THEN Enter(r, "delivery", "done", Blank)
          ELSE Enter(r, "delivery", "log", [Blank EXCEPT !.event = e])
    /\ UNCHANGED <<status, refunds, logs, ledger, transitions, applied>>

\* The identifier is not unique in the table.
LogEvent(r) ==
    /\ steps[r] = "log"
    /\ logs' = With(logs, r, [event |-> memory[r].event, status |-> "PENDING"])
    /\ Advance(r, "verify", memory[r])
    /\ UNCHANGED <<status, refunds, ledger, transitions, applied>>

\* A signature that does not verify is refused in production.  An event of another type,
\* or one that does not name a payment, ends here.
Verify(r) ==
    /\ steps[r] = "verify"
    /\ \/ /\ logs' = [logs EXCEPT ![r].status = "INVALID_SIGNATURE"]
          /\ Answer(r)
       \/ /\ logs' = [logs EXCEPT ![r].status = "VERIFIED"]
          /\ IF Outcome[memory[r].event] = "OTHER" THEN Answer(r)
             ELSE Advance(r, "apply", memory[r])
    /\ UNCHANGED <<status, refunds, ledger, transitions, applied>>

\* updateStatus, whatever the payment's status is.
Apply(r) ==
    /\ steps[r] = "apply"
    /\ applied' = applied \cup {r}
    /\ IF Outcome[memory[r].event] = "PAYMENT_SUCCESS"
       THEN status' = "CAPTURED" /\ Advance(r, "confirm", memory[r])
       ELSE status' = "FAILED" /\ Advance(r, "close", memory[r])
    /\ UNCHANGED <<refunds, logs, ledger, transitions>>

\* What a capture does after the group-th commission.
After(r, group) ==
    Advance(r, IF group = Groups THEN "close" ELSE "commission",
            [memory[r] EXCEPT !.group = group])

\* The order's history gets a row; its status and paymentStatus stay.
Confirm(r) ==
    /\ steps[r] = "confirm"
    /\ transitions' = transitions \cup {r}
    /\ After(r, 0)
    /\ UNCHANGED <<status, refunds, logs, ledger, applied>>

BookCommission(r) ==
    /\ steps[r] = "commission"
    /\ ledger' = ledger \cup {<<r, memory[r].group + 1>>}
    /\ After(r, memory[r].group + 1)
    /\ UNCHANGED <<status, refunds, logs, transitions, applied>>

Close(r) ==
    /\ steps[r] = "close"
    /\ logs' = [logs EXCEPT ![r].status = "PROCESSED"]
    /\ Answer(r)
    /\ UNCHANGED <<status, refunds, ledger, transitions, applied>>

-----------------------------------------------------------------------------
(* handlePaymentWebhook: it only logs                                      *)

Processed(e) == {l \in Known(e) : logs[l].status = "PROCESSED"}

BeginCallback(r) ==
    /\ \E e \in Events :
          IF Processed(e) # {} THEN Enter(r, "callback", "done", Blank)
          ELSE Enter(r, "callback", "record", [Blank EXCEPT !.event = e])
    /\ UNCHANGED <<status, refunds, logs, ledger, transitions, applied>>

RecordCallback(r) ==
    /\ steps[r] = "record"
    /\ logs' = With(logs, r, [event |-> memory[r].event, status |-> "VERIFIED"])
    /\ Answer(r)
    /\ UNCHANGED <<status, refunds, ledger, transitions, applied>>

-----------------------------------------------------------------------------
(* processRefund and createRefund                                          *)

Returned(S) == MapThenSumSet(LAMBDA q : refunds[q].amount, S)

\* Variant: processed refunds are not counted.
AllOfIt == Captured

Refundable == Captured - Returned(Refunded)

KeyUsed(key) == key # None /\ \E q \in Refunded : refunds[q].key = key

\* The status and the balance are looked at before the transaction, the balance again in
\* it.
BeginRefund(r) ==
    /\ status \in {"CAPTURED", "PARTIALLY_REFUNDED"}
    /\ \E n \in 1..Captured, key \in Keys \cup {None} :
          /\ n <= Refundable
          /\ Enter(r, "refund", "open", [Blank EXCEPT !.amount = n, !.key = key])
    /\ UNCHANGED <<status, refunds, logs, ledger, transitions, applied>>

\* The transaction reads the key, the payment and its refunds.  A refund with the same key
\* is returned as if it were this one.
OpenRefund(r) ==
    /\ steps[r] = "open"
    /\ CASE KeyUsed(memory[r].key) -> Advance(r, "note", Blank)
         [] ~KeyUsed(memory[r].key) /\ memory[r].amount <= Refundable ->
              Advance(r, "refund", [memory[r] EXCEPT !.seen = Captured - Refundable])
         [] OTHER -> Answer(r)
    /\ UNCHANGED <<status, refunds, logs, ledger, transitions, applied>>

\* Variant: a payment is never refunded entirely.
PartlyRefunded(total) == IF total > Captured THEN "REFUNDED" ELSE "PARTIALLY_REFUNDED"

StatusAfter(total) == IF total >= Captured THEN "REFUNDED" ELSE "PARTIALLY_REFUNDED"

\* The status follows from the refunds that were read.  The key is unique.
WriteRefund(r) ==
    /\ steps[r] = "refund"
    /\ LET m == memory[r]
       IN  IF KeyUsed(m.key) THEN Answer(r) /\ UNCHANGED <<refunds, status>>
           ELSE /\ refunds' = With(refunds, r, [amount |-> m.amount, key |-> m.key])
                /\ status' = StatusAfter(m.seen + m.amount)
                /\ Advance(r, "note", Blank)
    /\ UNCHANGED <<logs, ledger, transitions, applied>>

NoteRefund(r) ==
    /\ steps[r] = "note"
    /\ transitions' = transitions \cup {r}
    /\ Answer(r)
    /\ UNCHANGED <<status, refunds, logs, ledger, applied>>

-----------------------------------------------------------------------------
Step(r) ==
    \/ BeginDelivery(r) \/ LogEvent(r) \/ Verify(r) \/ Apply(r)
    \/ Confirm(r) \/ BookCommission(r) \/ Close(r)
    \/ BeginCallback(r) \/ RecordCallback(r)
    \/ BeginRefund(r) \/ OpenRefund(r) \/ WriteRefund(r) \/ NoteRefund(r)

Next == \E r \in Requests : Step(r)

Spec == Init /\ [][Next]_paymentVars

-----------------------------------------------------------------------------
(* Properties                                                              *)

Overlap(p, q) == p \notin before[q] /\ q \notin before[p]

EventOf(r) == logs[r].event

\* Two refunds can both pass the check of the balance.  A refund and those that were
\* answered before it was asked for never exceed what was captured: only refunds that
\* overlapped do.
RefundsStayWithinCapture ==
    \A q \in Refunded :
        Returned(before[q] \cap Refunded) + refunds[q].amount <= Captured

\* An identified event that is delivered again captures, or declines, and charges again
\* only when the deliveries overlapped; and a log never says PROCESSED before the
\* commissions of all groups are booked.
EventsActOnce ==
    /\ \A a, b \in applied :
          a # b /\ EventOf(a) = EventOf(b) /\ EventOf(a) \notin Unnamed => Overlap(a, b)
    /\ \A l \in Logged :
          logs[l].status = "PROCESSED" /\ Outcome[EventOf(l)] = "PAYMENT_SUCCESS" =>
              {l} \X (1..Groups) \subseteq ledger

\* Events overwrite the status whatever it is, and refunds derive it from what they read:
\* it tells what was refunded as long as no event was applied but before the refunds, and
\* the refunds did not overlap.
StatusTellsRefunds ==
    /\ Refunded # {}
    /\ \A p, q \in Refunded : p # q => ~Overlap(p, q)
    /\ \A a \in applied, q \in Refunded : a \in before[q]
    => status = IF Returned(Refunded) = Captured THEN "REFUNDED" ELSE "PARTIALLY_REFUNDED"
=============================================================================
