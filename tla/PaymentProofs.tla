--------------------------- MODULE PaymentProofs ---------------------------
(***************************************************************************)
(* Proofs about Payments: for any number of requests, any amount captured  *)
(* and any number of groups.                                               *)
(***************************************************************************)
EXTENDS Payments, SetLemmas, TLAPS

-----------------------------------------------------------------------------
(* Types, and what each request may have written by the step it is at.     *)

Steps == {"idle", "log", "verify", "apply", "confirm", "commission", "close", "record",
          "open", "refund", "note", "done"}

\* Steps of a delivery that has logged its event.
Following == {"verify", "apply", "confirm", "commission", "close"}

Memory == [event : Events \cup {None}, group : 0..Groups, amount : 0..Captured,
           key : Keys \cup {None}, seen : Int]

Marks == {"PENDING", "INVALID_SIGNATURE", "VERIFIED", "PROCESSED"}

Log == [event : Events, status : Marks]

Types ==
    /\ steps \in [Requests -> Steps]
    /\ memory \in [Requests -> Memory]
    /\ before \in [Requests -> SUBSET Requests]
    /\ Refunded \subseteq Requests
    /\ \A q \in Refunded : refunds[q].amount \in 1..Captured
    /\ Logged \subseteq Requests
    /\ \A l \in Logged : logs[l] \in Log
    /\ applied \subseteq Logged

\* What a request says of the rows of its name.
Standing(r) ==
    /\ \A a \in before[r] : steps[a] = "done"
    /\ steps[r] \in {"idle", "log", "record"} => r \notin Logged
    /\ steps[r] \in {"idle", "open", "refund"} => r \notin Refunded
    /\ steps[r] \in {"log", "record"} => memory[r].event \in Events
    /\ steps[r] \in Following => r \in Logged /\ logs[r].event = memory[r].event
    /\ steps[r] \in {"open", "refund"} => memory[r].amount \in 1..Captured

\* The commissions of a capture are booked one by one, and its log is closed after the last.
Booked(r) ==
    /\ steps[r] = "commission" =>
          memory[r].group < Groups /\ {r} \X (1..memory[r].group) \subseteq ledger
    /\ steps[r] = "close" /\ Outcome[memory[r].event] = "PAYMENT_SUCCESS" =>
          {r} \X (1..Groups) \subseteq ledger
    /\ r \in Logged /\ logs[r].status = "PROCESSED" /\ Outcome[logs[r].event] = "PAYMENT_SUCCESS" =>
          {r} \X (1..Groups) \subseteq ledger

\* No request that was answered before r began has logged the named event e.
FirstOf(r, e) == \A a \in before[r] \cap Logged : logs[a].event = e => e \in Unnamed

\* A delivery that has not been turned away is the first of its event.
Unheard(r) ==
    /\ steps[r] = "log" => FirstOf(r, memory[r].event)
    /\ steps[r] \in {"verify", "apply"} \/ r \in applied => FirstOf(r, logs[r].event)

PaymentInv ==
    /\ Types
    /\ \A r \in Requests : Standing(r) /\ Booked(r) /\ Unheard(r)

-----------------------------------------------------------------------------
(* What refunds add up to.                                                 *)

\* What the refunds of S return, as a sum the lemmas speak of.
Spent(rows, S) == Total([q \in S |-> rows[q].amount], S)

\* A refund and what was returned before it was asked for do not exceed the capture.
Fits(r) ==
    /\ steps[r] \in {"open", "refund"} =>
          Spent(refunds, before[r] \cap Refunded) + memory[r].amount <= Captured
    /\ r \in Refunded =>
          Spent(refunds, before[r] \cap Refunded) + refunds[r].amount <= Captured

\* What a transaction has read is what was returned, unless a refund it did not see was
\* written since.
Read(r) ==
    steps[r] = "refund" /\ Refunded \subseteq before[r] => memory[r].seen = Spent(refunds, Refunded)

\* The refunds were made one after the other, and after every event that was applied.
InTurn ==
    /\ Refunded # {}
    /\ \A p, q \in Refunded : p # q => ~Overlap(p, q)
    /\ \A a \in applied, q \in Refunded : a \in before[q]

StatusOf(total) == IF total = Captured THEN "REFUNDED" ELSE "PARTIALLY_REFUNDED"

RefundInv ==
    /\ \A r \in Requests : Fits(r) /\ Read(r)
    /\ InTurn => status = StatusOf(Spent(refunds, Refunded))

-----------------------------------------------------------------------------
(* One request at a time takes a step, and writes rows of its own name.    *)

OneMoves(r) ==
    /\ steps[r] # "done" /\ steps'[r] # "idle"
    /\ steps' = [steps EXCEPT ![r] = steps'[r]]
    /\ memory' = [memory EXCEPT ![r] = memory'[r]]
    /\ before' = IF steps[r] = "idle" THEN [before EXCEPT ![r] = Answered] ELSE before

RowsOwn(r) ==
    /\ Refunded \subseteq Refunded' /\ Refunded' \subseteq Refunded \cup {r}
    /\ \A q \in Refunded \ {r} : refunds'[q] = refunds[q]
    /\ Logged \subseteq Logged' /\ Logged' \subseteq Logged \cup {r}
    /\ \A l \in Logged \ {r} : logs'[l] = logs[l]
    /\ ledger \subseteq ledger'
    /\ applied \subseteq applied' /\ applied' \subseteq applied \cup {r}

\* What the fields of a memory, and of a log, are.
LEMMA Fields ==
    ASSUME Types
    PROVE  /\ \A r \in Requests :
                 /\ memory[r].event \in Events \cup {None} /\ memory[r].group \in 0..Groups
                 /\ memory[r].amount \in 0..Captured /\ memory[r].key \in Keys \cup {None}
                 /\ memory[r].seen \in Int
           /\ \A l \in Logged : logs[l].event \in Events
           /\ None \notin Events /\ Captured \in Nat \ {0} /\ Groups \in Nat
  BY PaymentAssumption DEF Types, Memory, Log

LEMMA Notes ==
    /\ Blank \in Memory
    /\ \A e \in Events : [Blank EXCEPT !.event = e] \in Memory /\ [Blank EXCEPT !.event = e].event = e
    /\ \A n \in 1..Captured, k \in Keys \cup {None} :
          /\ [Blank EXCEPT !.amount = n, !.key = k] \in Memory
          /\ [Blank EXCEPT !.amount = n, !.key = k].amount = n
  <1>1. Blank \in Memory
    BY PaymentAssumption DEF Blank, Memory
  <1>2. ASSUME NEW e \in Events
        PROVE  [Blank EXCEPT !.event = e] \in Memory /\ [Blank EXCEPT !.event = e].event = e
    BY PaymentAssumption DEF Blank, Memory
  <1>3. ASSUME NEW n \in 1..Captured, NEW k \in Keys \cup {None}
        PROVE  /\ [Blank EXCEPT !.amount = n, !.key = k] \in Memory
               /\ [Blank EXCEPT !.amount = n, !.key = k].amount = n
    <2> DEFINE b == [Blank EXCEPT !.amount = n]
               m == [b EXCEPT !.key = k]
    <2>1. b \in Memory /\ b.amount = n
      <3>1. n \in 0..Captured
        BY PaymentAssumption
      <3>2. QED
        BY <1>1, <3>1 DEF Memory
    <2> HIDE DEF b
    <2>2. m \in Memory /\ m.amount = b.amount
      BY <2>1 DEF Memory
    <2>3. [Blank EXCEPT !.amount = n, !.key = k] = m
      BY Zenon DEF b
    <2> HIDE DEF m
    <2>4. QED
      BY <2>1, <2>2, <2>3
  <1>4. QED
    BY <1>1, <1>2, <1>3

LEMMA NotedMore ==
    ASSUME NEW m \in Memory
    PROVE  /\ \A n \in Int : /\ [m EXCEPT !.seen = n] \in Memory
                             /\ [m EXCEPT !.seen = n].amount = m.amount
                             /\ [m EXCEPT !.seen = n].seen = n
           /\ \A g \in 0..Groups : /\ [m EXCEPT !.group = g] \in Memory
                                   /\ [m EXCEPT !.group = g].event = m.event
                                   /\ [m EXCEPT !.group = g].group = g
  BY DEF Memory

LEMMA Marked ==
    ASSUME NEW l \in Log, NEW s \in Marks
    PROVE  /\ [l EXCEPT !.status = s] \in Log
           /\ [l EXCEPT !.status = s].event = l.event
           /\ [l EXCEPT !.status = s].status = s
  BY DEF Log, Marks

\* A row that is added, and a log whose status changes.
LEMMA LoggedRow ==
    ASSUME NEW r, NEW row, logs' = With(logs, r, row)
    PROVE  /\ Logged' = Logged \cup {r} /\ logs'[r] = row
           /\ \A l \in Logged \ {r} : logs'[l] = logs[l]
  BY DEF With, Logged

LEMMA RefundedRow ==
    ASSUME NEW r, NEW row, refunds' = With(refunds, r, row)
    PROVE  /\ Refunded' = Refunded \cup {r} /\ refunds'[r] = row
           /\ \A q \in Refunded \ {r} : refunds'[q] = refunds[q]
  BY DEF With, Refunded

LEMMA MarkedLog ==
    ASSUME Types, NEW r \in Logged, NEW s \in Marks, logs' = [logs EXCEPT ![r].status = s]
    PROVE  /\ Logged' = Logged /\ logs'[r] \in Log
           /\ logs'[r].event = logs[r].event /\ logs'[r].status = s
           /\ \A l \in Logged \ {r} : logs'[l] = logs[l]
  <1>1. logs[r] \in Log
    BY DEF Types
  <1>2. Logged' = Logged /\ logs'[r] = [logs[r] EXCEPT !.status = s]
        /\ \A l \in Logged \ {r} : logs'[l] = logs[l]
    BY DEF Logged
  <1>3. /\ [logs[r] EXCEPT !.status = s] \in Log
        /\ [logs[r] EXCEPT !.status = s].event = logs[r].event
        /\ [logs[r] EXCEPT !.status = s].status = s
    BY <1>1, Marked
  <1>4. QED
    BY <1>2, <1>3

LEMMA StepMoves ==
    ASSUME PaymentInv, NEW r \in Requests, Step(r)
    PROVE  OneMoves(r) /\ RowsOwn(r)
  <1> USE DEF OneMoves, Goto, Enter, Advance, Answer
  <1>0. Types /\ steps \in [Requests -> Steps] /\ memory \in [Requests -> Memory]
        /\ before \in [Requests -> SUBSET Requests] /\ Standing(r)
    BY DEF PaymentInv, Types
  <1>s. UNCHANGED refunds => Refunded' = Refunded
    BY DEF Refunded
  <1>l. UNCHANGED logs => Logged' = Logged
    BY DEF Logged
  <1>1. CASE BeginDelivery(r)
    <2>1. OneMoves(r)
      BY <1>0, <1>1 DEF BeginDelivery
    <2>2. QED
      BY <1>1, <1>s, <1>l, <2>1 DEF BeginDelivery, RowsOwn
  <1>2. CASE LogEvent(r)
    <2>1. OneMoves(r)
      BY <1>0, <1>2 DEF LogEvent
    <2>2. QED
      BY <1>2, <1>s, <2>1, LoggedRow DEF LogEvent, RowsOwn
  <1>3. CASE Verify(r)
    <2>1. OneMoves(r)
      BY <1>0, <1>3 DEF Verify
    <2>2. r \in Logged
      BY <1>0, <1>3 DEF Verify, Standing, Following
    <2>3. QED
      BY <1>0, <1>3, <1>s, <2>1, <2>2, MarkedLog DEF Marks, Verify, RowsOwn
  <1>4. CASE Apply(r)
    <2>1. OneMoves(r)
      BY <1>0, <1>4 DEF Apply
    <2>2. QED
      BY <1>4, <1>s, <1>l, <2>1 DEF Apply, RowsOwn
  <1>5. CASE Confirm(r)
    <2>1. OneMoves(r)
      BY <1>0, <1>5 DEF Confirm, After
    <2>2. QED
      BY <1>5, <1>s, <1>l, <2>1 DEF Confirm, RowsOwn
  <1>6. CASE BookCommission(r)
    <2>1. OneMoves(r)
      BY <1>0, <1>6 DEF BookCommission, After
    <2>2. QED
      BY <1>6, <1>s, <1>l, <2>1 DEF BookCommission, RowsOwn
  <1>7. CASE Close(r)
    <2>1. OneMoves(r)
      BY <1>0, <1>7 DEF Close
    <2>2. r \in Logged
      BY <1>0, <1>7 DEF Close, Standing, Following
    <2>3. QED
      BY <1>0, <1>7, <1>s, <2>1, <2>2, MarkedLog DEF Marks, Close, RowsOwn
  <1>8. CASE BeginCallback(r)
    <2>1. OneMoves(r)
      BY <1>0, <1>8 DEF BeginCallback
    <2>2. QED
      BY <1>8, <1>s, <1>l, <2>1 DEF BeginCallback, RowsOwn
  <1>9. CASE RecordCallback(r)
    <2>1. OneMoves(r)
      BY <1>0, <1>9 DEF RecordCallback
    <2>2. QED
      BY <1>9, <1>s, <2>1, LoggedRow DEF RecordCallback, RowsOwn
  <1>10. CASE BeginRefund(r)
    <2>1. OneMoves(r)
      BY <1>0, <1>10 DEF BeginRefund
    <2>2. QED
      BY <1>10, <1>s, <1>l, <2>1 DEF BeginRefund, RowsOwn
  <1>11. CASE OpenRefund(r)
    <2>1. OneMoves(r)
      BY <1>0, <1>11 DEF OpenRefund
    <2>2. QED
      BY <1>11, <1>s, <1>l, <2>1 DEF OpenRefund, RowsOwn
  <1>12. CASE WriteRefund(r)
    <2>1. OneMoves(r)
      BY <1>0, <1>12 DEF WriteRefund
    <2>2. CASE UNCHANGED refunds
      BY <1>12, <1>s, <1>l, <2>1, <2>2 DEF WriteRefund, RowsOwn
    <2>3. CASE refunds' = With(refunds, r, [amount |-> memory[r].amount, key |-> memory[r].key])
      BY <1>12, <1>l, <2>1, <2>3, RefundedRow DEF WriteRefund, RowsOwn
    <2>4. QED
      BY <1>12, <2>2, <2>3 DEF WriteRefund
  <1>13. CASE NoteRefund(r)
    <2>1. OneMoves(r)
      BY <1>0, <1>13 DEF NoteRefund
    <2>2. QED
      BY <1>13, <1>s, <1>l, <2>1 DEF NoteRefund, RowsOwn
  <1>14. QED
    BY <1>1, <1>2, <1>3, <1>4, <1>5, <1>6, <1>7, <1>8, <1>9, <1>10, <1>11, <1>12, <1>13 DEF Step

\* What holds of the other requests stays.
LEMMA OthersStay ==
    ASSUME PaymentInv, NEW r \in Requests, OneMoves(r), RowsOwn(r), NEW q \in Requests, q # r
    PROVE  (Standing(q) /\ Booked(q) /\ Unheard(q))'
  <1>0. /\ steps' \in [Requests -> {steps'[x] : x \in Requests}]
        /\ steps'[q] = steps[q] /\ memory'[q] = memory[q] /\ before'[q] = before[q]
        /\ \A x \in Requests : x # r => steps'[x] = steps[x]
    BY DEF PaymentInv, Types, OneMoves
  <1>1. Standing(q) /\ Booked(q) /\ Unheard(q) /\ r \notin before[q] /\ before[q] \subseteq Requests
    BY DEF PaymentInv, Standing, OneMoves, Types
  <1>2. /\ q \in Logged <=> q \in Logged'
        /\ q \in Refunded <=> q \in Refunded'
        /\ q \in Logged => logs'[q] = logs[q]
        /\ q \in applied <=> q \in applied'
    BY DEF RowsOwn
  <1>3. Standing(q)'
    BY <1>0, <1>1, <1>2 DEF Standing, Following
  <1>4. Booked(q)'
    BY <1>0, <1>1, <1>2 DEF Booked, RowsOwn
  <1>5. ASSUME NEW e, FirstOf(q, e)
        PROVE  FirstOf(q, e)'
    BY <1>0, <1>1, <1>5 DEF FirstOf, RowsOwn
  <1>6. q \in applied => q \in Logged
    BY DEF PaymentInv, Types
  <1>7. steps[q] \in Following => q \in Logged
    BY <1>1 DEF Standing
  <1>8. Unheard(q)'
    BY <1>0, <1>1, <1>2, <1>5, <1>6, <1>7 DEF Unheard, Following
  <1>9. QED
    BY <1>3, <1>4, <1>8

-----------------------------------------------------------------------------
(* Sums of refunds.                                                        *)

LEMMA ReturnedIsSpent ==
    ASSUME NEW S, IsFiniteSet(S)
    PROVE  Returned(S) = Spent(refunds, S)
  <1> DEFINE w == [q \in S |-> refunds[q].amount]
             P(g) == g = [s \in SUBSET S |->
                             IF s = {} THEN 0
                             ELSE LET x == CHOOSE x \in s : TRUE
                                  IN  refunds[x].amount + g[s \ {x}]]
             h == CHOOSE g : P(g)
  <1>1. Returned(S) = h[S]
    BY Zenon DEF Returned, MapThenSumSet, MapThenFoldSet
  <1>2. ASSUME NEW g
        PROVE  P(g) <=> IsSum(g, w, S)
    BY DEF IsSum, Weighed
  <1>3. \E g : P(g)
    <2> HIDE DEF P, w
    <2>1. QED
      BY <1>2, SumExists
  <1>4. P(h)
    <2> HIDE DEF P
    <2>1. QED
      BY <1>3, Zenon
  <1>5. Returned(S) = Total(w, S)
    <2>1. S \in SUBSET S
      OBVIOUS
    <2> HIDE DEF P, w, h
    <2>2. QED
      BY <1>1, <1>2, <1>4, <2>1, TotalOf
  <1>6. QED
    BY <1>5 DEF Spent

\* Sums of refunds are natural numbers.
LEMMA SpentIsNat ==
    ASSUME NEW S, IsFiniteSet(S), NEW rows, \A q \in S : rows[q].amount \in Nat
    PROVE  Spent(rows, S) \in Nat
  <1>1. \A q \in S : [p \in S |-> rows[p].amount][q] \in Nat
    OBVIOUS
  <1>2. QED
    BY <1>1, TotalIsNat DEF Spent

\* Refunds that are not touched return what they did.
LEMMA SpentStays ==
    ASSUME NEW S, IsFiniteSet(S), NEW rows, NEW more, \A q \in S : more[q] = rows[q]
    PROVE  Spent(more, S) = Spent(rows, S)
  <1>1. [q \in S |-> more[q].amount] = [q \in S |-> rows[q].amount]
    OBVIOUS
  <1>2. QED
    BY <1>1 DEF Spent

\* A refund that is added adds its amount.
LEMMA SpentAdds ==
    ASSUME NEW S, IsFiniteSet(S), NEW r, r \notin S, NEW rows, \A q \in S \cup {r} : rows[q].amount \in Int
    PROVE  Spent(rows, S \cup {r}) = Spent(rows, S) + rows[r].amount
  <1> DEFINE w == [q \in S \cup {r} |-> rows[q].amount]
             v == [q \in S |-> rows[q].amount]
  <1>1. IsFiniteSet(S \cup {r})
    BY FS_AddElement
  <1>2. \A q \in S \cup {r} : w[q] \in Int
    OBVIOUS
  <1>3. \A q \in S : w[q] = v[q] /\ w[q] \in Int
    OBVIOUS
  <1>4. w[r] = rows[r].amount /\ w[r] \in Int
    OBVIOUS
  <1>5. Spent(rows, S \cup {r}) = Total(w, S \cup {r}) /\ Spent(rows, S) = Total(v, S)
    BY DEF Spent
  <1> HIDE DEF w, v
  <1>6. Total(w, S \cup {r}) = w[r] + Total(w, (S \cup {r}) \ {r})
    BY <1>1, <1>2, TotalAdds
  <1>7. (S \cup {r}) \ {r} = S
    OBVIOUS
  <1>8. Total(w, S) = Total(v, S) /\ Total(w, S) \in Int
    BY <1>3, TotalEqual, TotalAdds
  <1>9. Total(w, S \cup {r}) = w[r] + Total(w, S)
    BY <1>6, <1>7
  <1>10. Total(w, S \cup {r}) = Total(w, S) + w[r]
    BY <1>4, <1>8, <1>9
  <1>11. QED
    BY <1>4, <1>5, <1>8, <1>10

LEMMA FiniteRefunds ==
    ASSUME Types
    PROVE  /\ IsFiniteSet(Refunded) /\ \A S \in SUBSET Refunded : IsFiniteSet(S)
           /\ \A q \in Refunded : refunds[q].amount \in Nat
           /\ \A S \in SUBSET Refunded : Spent(refunds, S) \in Nat /\ Returned(S) = Spent(refunds, S)
  <1>1. ASSUME NEW S \in SUBSET Refunded
        PROVE  IsFiniteSet(S)
    BY PaymentAssumption, FS_Subset DEF Types
  <1>2. \A q \in Refunded : refunds[q].amount \in Nat
    BY PaymentAssumption DEF Types
  <1>3. ASSUME NEW S \in SUBSET Refunded
        PROVE  Spent(refunds, S) \in Nat /\ Returned(S) = Spent(refunds, S)
    BY <1>1, <1>2, SpentIsNat, ReturnedIsSpent
  <1>4. Refunded \in SUBSET Refunded
    OBVIOUS
  <1>5. QED
    BY <1>1, <1>2, <1>3, <1>4

\* What can be refunded, and what a transaction notes of it.
LEMMA SeenIsSpent ==
    ASSUME Types
    PROVE  /\ Refundable = Captured - Spent(refunds, Refunded)
           /\ Captured - Refundable = Spent(refunds, Refunded)
           /\ Captured - Refundable \in Int
  <1>1. Spent(refunds, Refunded) \in Nat /\ Returned(Refunded) = Spent(refunds, Refunded)
    BY FiniteRefunds
  <1>2. Captured \in Nat
    BY PaymentAssumption
  <1>3. QED
    BY <1>1, <1>2 DEF Refundable

\* A step's own request: its types and what holds of it.
Typed(r) ==
    /\ steps'[r] \in Steps /\ memory'[r] \in Memory
    /\ r \in Refunded' => refunds'[r].amount \in 1..Captured
    /\ r \in Logged' => logs'[r] \in Log
    /\ r \in applied' => r \in Logged'

\* Before a request has taken a step nothing is known of it, and later what it found then
\* stays as it was.
LEMMA OwnPast ==
    ASSUME PaymentInv, NEW r \in Requests, OneMoves(r), RowsOwn(r)
    PROVE  /\ \A a \in before'[r] : a # r /\ steps'[a] = "done"
           /\ steps[r] # "idle" =>
                 before'[r] = before[r] /\ \A e : FirstOf(r, e) => FirstOf(r, e)'
           /\ steps[r] = "idle" => before'[r] = Answered
  <1>0. /\ steps \in [Requests -> Steps] /\ before \in [Requests -> SUBSET Requests]
        /\ Standing(r)
    BY DEF PaymentInv, Types
  <1>1. \A a \in before'[r] : a # r /\ steps'[a] = "done"
    <2>1. CASE steps[r] = "idle"
      BY <1>0, <2>1 DEF OneMoves, Answered
    <2>2. CASE steps[r] # "idle"
      BY <1>0, <2>2 DEF OneMoves, Standing
    <2>3. QED
      BY <2>1, <2>2
  <1>2. CASE steps[r] = "idle"
    BY <1>0, <1>1, <1>2 DEF OneMoves
  <1>3. CASE steps[r] # "idle"
    <2>1. before'[r] = before[r]
      BY <1>3 DEF OneMoves
    <2>2. ASSUME NEW e, FirstOf(r, e)
          PROVE  FirstOf(r, e)'
      BY <1>1, <2>1, <2>2 DEF FirstOf, RowsOwn
    <2>3. QED
      BY <1>1, <1>3, <2>1, <2>2
  <1>4. QED
    BY <1>2, <1>3

\* Steps that write no log, apply nothing and do not lead to one that does.
LEMMA OwnQuiet ==
    ASSUME PaymentInv, NEW r \in Requests, OneMoves(r), RowsOwn(r), UNCHANGED <<logs, applied>>,
           steps'[r] \notin {"log", "verify", "apply", "commission", "close"}
    PROVE  Booked(r)' /\ Unheard(r)'
  <1>0. Logged' = Logged /\ Standing(r) /\ Booked(r) /\ Unheard(r) /\ applied \subseteq Logged
    BY DEF Logged, PaymentInv, Types
  <1>1. Booked(r)'
    BY <1>0 DEF Booked, RowsOwn
  <1>2. r \in applied => steps[r] # "idle"
    BY <1>0 DEF Standing
  <1>3. r \in applied => FirstOf(r, logs[r].event)'
    BY <1>0, <1>2, OwnPast DEF Unheard
  <1>4. Unheard(r)'
    BY <1>3 DEF Unheard, FirstOf
  <1>5. QED
    BY <1>1, <1>4

LEMMA OwnTypes ==
    ASSUME PaymentInv, NEW r \in Requests, Step(r), OneMoves(r), RowsOwn(r)
    PROVE  Typed(r) /\ Standing(r)'
  <1> USE DEF Goto, Enter, Advance, Answer
  <1>0. Types /\ steps \in [Requests -> Steps] /\ memory \in [Requests -> Memory]
        /\ memory[r] \in Memory /\ Standing(r) /\ Booked(r)
        /\ (r \in Refunded => refunds[r].amount \in 1..Captured)
        /\ (r \in Logged => logs[r] \in Log)
        /\ (r \in applied => r \in Logged)
    BY DEF PaymentInv, Types
  <1>s. UNCHANGED refunds => Refunded' = Refunded
    BY DEF Refunded
  <1>l. UNCHANGED logs => Logged' = Logged
    BY DEF Logged
  <1>p. \A a \in before'[r] : steps'[a] = "done"
    BY OwnPast
  <1>b. Blank \in Memory
    BY Notes
  <1>1. CASE BeginDelivery(r)
    <2>1. PICK e \in Events :
              \/ steps'[r] = "done" /\ memory'[r] = Blank
              \/ steps'[r] = "log" /\ memory'[r] = [Blank EXCEPT !.event = e]
      BY <1>0, <1>1 DEF BeginDelivery
    <2>2. memory'[r] \in Memory /\ steps'[r] \in Steps /\ (steps'[r] = "log" => memory'[r].event \in Events)
      BY <2>1, Notes DEF Steps
    <2>3. Standing(r)'
      BY <1>0, <1>1, <1>p, <1>s, <1>l, <2>1, <2>2 DEF BeginDelivery, Standing, Following
    <2>4. QED
      BY <1>0, <1>1, <1>s, <1>l, <2>2, <2>3 DEF BeginDelivery, Typed
  <1>2. CASE LogEvent(r)
    <2>1. steps[r] = "log" /\ steps'[r] = "verify" /\ memory'[r] = memory[r] /\ refunds' = refunds
          /\ logs' = With(logs, r, [event |-> memory[r].event, status |-> "PENDING"])
      BY <1>0, <1>2 DEF LogEvent
    <2>2. r \in Logged' /\ logs'[r] = [event |-> memory[r].event, status |-> "PENDING"]
      BY <2>1, LoggedRow
    <2>3. memory[r].event \in Events
      BY <1>0, <2>1 DEF Standing
    <2>4. logs'[r] \in Log /\ logs'[r].event = memory[r].event
      BY <2>2, <2>3 DEF Log, Marks
    <2>5. Standing(r)'
      BY <1>p, <2>1, <2>2, <2>4 DEF Standing, Following
    <2>6. QED
      BY <1>0, <1>s, <2>1, <2>2, <2>4, <2>5 DEF Typed, Steps
  <1>3. CASE Verify(r)
    <2>1. r \in Logged /\ logs[r].event = memory[r].event
      BY <1>0, <1>3 DEF Verify, Standing, Following
    <2>2. PICK s \in Marks : logs' = [logs EXCEPT ![r].status = s]
      BY <1>3 DEF Verify, Marks
    <2>3. Logged' = Logged /\ logs'[r] \in Log /\ logs'[r].event = logs[r].event
      BY <1>0, <2>1, <2>2, MarkedLog
    <2>4. /\ UNCHANGED <<refunds, applied>>
          /\ \/ steps'[r] = "done" /\ memory'[r] = Blank
             \/ steps'[r] = "apply" /\ memory'[r] = memory[r]
      BY <1>0, <1>3 DEF Verify
    <2>5. Standing(r)'
      BY <1>p, <2>1, <2>3, <2>4 DEF Standing, Following
    <2>6. QED
      BY <1>0, <1>b, <1>s, <2>1, <2>3, <2>4, <2>5 DEF Typed, Steps
  <1>4. CASE Apply(r)
    <2>1. r \in Logged /\ logs[r].event = memory[r].event
      BY <1>0, <1>4 DEF Apply, Standing, Following
    <2>2. UNCHANGED <<refunds, logs>> /\ memory'[r] = memory[r] /\ steps'[r] \in {"confirm", "close"}
      BY <1>0, <1>4 DEF Apply
    <2>3. Standing(r)'
      BY <1>p, <1>l, <2>1, <2>2 DEF Standing, Following
    <2>4. QED
      BY <1>0, <1>s, <1>l, <2>1, <2>2, <2>3 DEF Typed, Steps
  <1>5. ASSUME Confirm(r) \/ BookCommission(r)
        PROVE  Typed(r) /\ Standing(r)'
    <2>1. r \in Logged /\ logs[r].event = memory[r].event /\ Groups \in Nat
      BY <1>0, <1>5, PaymentAssumption DEF Confirm, BookCommission, Standing, Following
    <2>2. PICK g \in 0..Groups : After(r, g)
      <3>1. CASE Confirm(r)
        BY <2>1, <3>1 DEF Confirm
      <3>2. CASE BookCommission(r)
        <4>1. steps[r] = "commission" /\ After(r, memory[r].group + 1)
          BY <3>2 DEF BookCommission
        <4>2. memory[r].group \in 0..Groups /\ memory[r].group < Groups
          BY <1>0, <4>1, Fields DEF Booked
        <4>3. memory[r].group + 1 \in 0..Groups
          BY <2>1, <4>2
        <4>4. QED
          BY <4>1, <4>3
      <3>3. QED
        BY <1>5, <3>1, <3>2
    <2>3. UNCHANGED <<refunds, logs, applied>> /\ steps'[r] \in {"commission", "close"}
          /\ memory'[r] = [memory[r] EXCEPT !.group = g]
      BY <1>0, <1>5, <2>2 DEF Confirm, BookCommission, After
    <2>4. memory'[r] \in Memory /\ memory'[r].event = memory[r].event
      BY <1>0, <2>3, NotedMore
    <2>5. Standing(r)'
      BY <1>p, <1>l, <2>1, <2>3, <2>4 DEF Standing, Following
    <2>6. QED
      BY <1>0, <1>s, <1>l, <2>1, <2>3, <2>4, <2>5 DEF Typed, Steps
  <1>6. CASE Close(r)
    <2>1. r \in Logged /\ logs[r].event = memory[r].event
      BY <1>0, <1>6 DEF Close, Standing, Following
    <2>2. "PROCESSED" \in Marks /\ logs' = [logs EXCEPT ![r].status = "PROCESSED"]
      BY <1>6 DEF Close, Marks
    <2>3. Logged' = Logged /\ logs'[r] \in Log /\ logs'[r].event = logs[r].event
      BY <1>0, <2>1, <2>2, MarkedLog
    <2>4. UNCHANGED <<refunds, applied>> /\ steps'[r] = "done" /\ memory'[r] = Blank
      BY <1>0, <1>6 DEF Close
    <2>5. Standing(r)'
      BY <1>p, <2>4 DEF Standing, Following
    <2>6. QED
      BY <1>0, <1>b, <1>s, <2>1, <2>3, <2>4, <2>5 DEF Typed, Steps
  <1>7. CASE BeginCallback(r)
    <2>1. PICK e \in Events :
              \/ steps'[r] = "done" /\ memory'[r] = Blank
              \/ steps'[r] = "record" /\ memory'[r] = [Blank EXCEPT !.event = e]
      BY <1>0, <1>7 DEF BeginCallback
    <2>2. memory'[r] \in Memory /\ steps'[r] \in Steps /\ (steps'[r] = "record" => memory'[r].event \in Events)
      BY <2>1, Notes DEF Steps
    <2>3. Standing(r)'
      BY <1>0, <1>7, <1>p, <1>s, <1>l, <2>1, <2>2 DEF BeginCallback, Standing, Following
    <2>4. QED
      BY <1>0, <1>7, <1>s, <1>l, <2>2, <2>3 DEF BeginCallback, Typed
  <1>8. CASE RecordCallback(r)
    <2>1. steps[r] = "record" /\ steps'[r] = "done" /\ memory'[r] = Blank /\ refunds' = refunds
          /\ logs' = With(logs, r, [event |-> memory[r].event, status |-> "VERIFIED"])
      BY <1>0, <1>8 DEF RecordCallback
    <2>2. r \in Logged' /\ logs'[r] = [event |-> memory[r].event, status |-> "VERIFIED"]
      BY <2>1, LoggedRow
    <2>3. memory[r].event \in Events
      BY <1>0, <2>1 DEF Standing
    <2>4. logs'[r] \in Log
      BY <2>2, <2>3 DEF Log, Marks
    <2>5. Standing(r)'
      BY <1>p, <2>1 DEF Standing, Following
    <2>6. QED
      BY <1>0, <1>b, <1>s, <2>1, <2>2, <2>4, <2>5 DEF Typed, Steps
  <1>9. CASE BeginRefund(r)
    <2>1. PICK n \in 1..Captured, key \in Keys \cup {None} :
              steps'[r] = "open" /\ memory'[r] = [Blank EXCEPT !.amount = n, !.key = key]
      BY <1>0, <1>9 DEF BeginRefund
    <2>2. memory'[r] \in Memory /\ memory'[r].amount = n
      BY <2>1, Notes
    <2>3. UNCHANGED <<refunds, logs, applied>> /\ steps[r] = "idle"
      BY <1>9 DEF BeginRefund
    <2>4. Standing(r)'
      BY <1>0, <1>p, <1>s, <1>l, <2>1, <2>2, <2>3 DEF Standing, Following
    <2>5. QED
      BY <1>0, <1>s, <1>l, <2>1, <2>2, <2>3, <2>4 DEF Typed, Steps
  <1>10. CASE OpenRefund(r)
    <2>1. UNCHANGED <<refunds, logs, applied>> /\ steps[r] = "open"
      BY <1>10 DEF OpenRefund
    <2>2. \/ steps'[r] \in {"note", "done"} /\ memory'[r] = Blank
          \/ /\ steps'[r] = "refund"
             /\ memory'[r] = [memory[r] EXCEPT !.seen = Captured - Refundable]
      BY <1>0, <1>10 DEF OpenRefund
    <2>3. memory'[r] \in Memory /\ (steps'[r] = "refund" => memory'[r].amount = memory[r].amount)
      <3>1. CASE steps'[r] \in {"note", "done"} /\ memory'[r] = Blank
        BY <1>b, <3>1
      <3>2. CASE steps'[r] = "refund" /\ memory'[r] = [memory[r] EXCEPT !.seen = Captured - Refundable]
        <4>1. Captured - Refundable \in Int
          BY <1>0, SeenIsSpent
        <4>2. QED
          BY <1>0, <3>2, <4>1, NotedMore
      <3>3. QED
        BY <2>2, <3>1, <3>2
    <2>4. Standing(r)'
      BY <1>0, <1>p, <1>s, <1>l, <2>1, <2>2, <2>3 DEF Standing, Following
    <2>5. QED
      BY <1>0, <1>s, <1>l, <2>1, <2>2, <2>3, <2>4 DEF Typed, Steps
  <1>11. CASE WriteRefund(r)
    <2>1. UNCHANGED <<logs, applied>> /\ steps[r] = "refund" /\ memory'[r] = Blank
          /\ steps'[r] \in {"note", "done"}
      BY <1>0, <1>11 DEF WriteRefund
    <2>2. \/ UNCHANGED refunds
          \/ refunds' = With(refunds, r, [amount |-> memory[r].amount, key |-> memory[r].key])
      BY <1>11 DEF WriteRefund
    <2>3. memory[r].amount \in 1..Captured
      BY <1>0, <2>1 DEF Standing
    <2>4. r \in Refunded' => refunds'[r].amount \in 1..Captured
      BY <1>0, <1>s, <2>2, <2>3, RefundedRow
    <2>5. Standing(r)'
      BY <1>p, <2>1 DEF Standing, Following
    <2>6. QED
      BY <1>0, <1>b, <1>l, <2>1, <2>4, <2>5 DEF Typed, Steps
  <1>12. CASE NoteRefund(r)
    <2>1. UNCHANGED <<refunds, logs, applied>> /\ steps'[r] = "done" /\ memory'[r] = Blank
      BY <1>0, <1>12 DEF NoteRefund
    <2>2. Standing(r)'
      BY <1>p, <2>1 DEF Standing, Following
    <2>3. QED
      BY <1>0, <1>b, <1>s, <1>l, <2>1, <2>2 DEF Typed, Steps
  <1>13. QED
    BY <1>1, <1>2, <1>3, <1>4, <1>5, <1>6, <1>7, <1>8, <1>9, <1>10, <1>11, <1>12 DEF Step

LEMMA OwnEvents ==
    ASSUME PaymentInv, NEW r \in Requests, Step(r), OneMoves(r), RowsOwn(r)
    PROVE  Booked(r)' /\ Unheard(r)'
  <1> USE DEF Goto, Enter, Advance, Answer
  <1>0. Types /\ steps \in [Requests -> Steps] /\ memory \in [Requests -> Memory]
        /\ memory[r] \in Memory /\ Standing(r) /\ Booked(r) /\ Unheard(r)
        /\ (r \in applied => r \in Logged) /\ Groups \in Nat
    BY PaymentAssumption DEF PaymentInv, Types
  <1>l. UNCHANGED logs => Logged' = Logged
    BY DEF Logged
  <1>p. steps[r] # "idle" => before'[r] = before[r] /\ \A e : FirstOf(r, e) => FirstOf(r, e)'
    BY OwnPast
  <1>1. CASE BeginDelivery(r)
    <2>1. PICK e \in Events :
              \/ steps'[r] = "done"
              \/ /\ Known(e) = {} /\ steps'[r] = "log"
                 /\ memory'[r] = [Blank EXCEPT !.event = e]
      BY <1>0, <1>1 DEF BeginDelivery
    <2>2. UNCHANGED <<logs, applied>> /\ r \notin Logged /\ r \notin applied
      BY <1>0, <1>1 DEF BeginDelivery, Standing
    <2>3. CASE steps'[r] = "done"
      BY <2>2, <2>3, OwnQuiet
    <2>4. CASE Known(e) = {} /\ steps'[r] = "log" /\ memory'[r] = [Blank EXCEPT !.event = e]
      <3>1. memory'[r].event = e
        BY <2>4, Notes
      <3>2. FirstOf(r, e)'
        BY <1>l, <2>2, <2>4 DEF FirstOf, Known
      <3>3. Unheard(r)'
        BY <2>2, <2>4, <3>1, <3>2 DEF Unheard, FirstOf
      <3>4. Booked(r)'
        BY <1>l, <2>2, <2>4 DEF Booked
      <3>5. QED
        BY <3>3, <3>4
    <2>5. QED
      BY <2>1, <2>3, <2>4
  <1>2. CASE LogEvent(r)
    <2>1. steps[r] = "log" /\ steps'[r] = "verify" /\ ledger' = ledger
          /\ logs' = With(logs, r, [event |-> memory[r].event, status |-> "PENDING"])
      BY <1>0, <1>2 DEF LogEvent
    <2>2. logs'[r] = [event |-> memory[r].event, status |-> "PENDING"]
      BY <2>1, LoggedRow
    <2>3. logs'[r].event = memory[r].event /\ logs'[r].status = "PENDING"
      BY <2>2
    <2>4. FirstOf(r, memory[r].event)'
      <3>1. FirstOf(r, memory[r].event)
        BY <1>0, <2>1 DEF Unheard
      <3> DEFINE e == memory[r].event
      <3>2. memory'[r] = memory[r]
        BY <1>0, <1>2 DEF LogEvent
      <3>3. QED
        BY <1>p, <2>1, <3>1, <3>2 DEF FirstOf
    <2>5. memory'[r] = memory[r]
      BY <1>0, <1>2 DEF LogEvent
    <2>6. FirstOf(r, logs[r].event)'
      BY <2>3, <2>4, <2>5 DEF FirstOf
    <2>7. QED
      BY <2>1, <2>3, <2>6 DEF Booked, Unheard
  <1>3. CASE Verify(r)
    <2>1. steps[r] = "verify" /\ steps'[r] \in {"apply", "done"} /\ ledger' = ledger
      BY <1>0, <1>3 DEF Verify
    <2>2. r \in Logged
      BY <1>0, <2>1 DEF Standing, Following
    <2>3. PICK s \in Marks : logs' = [logs EXCEPT ![r].status = s] /\ s # "PROCESSED"
      BY <1>3 DEF Verify, Marks
    <2>4. Logged' = Logged /\ logs'[r].event = logs[r].event /\ logs'[r].status = s
      BY <1>0, <2>2, <2>3, MarkedLog
    <2>5. FirstOf(r, logs[r].event)
      BY <1>0, <2>1 DEF Unheard
    <2>6. \A a \in before'[r] : a # r
      BY OwnPast
    <2>7. FirstOf(r, logs[r].event)'
      BY <1>p, <2>1, <2>4, <2>5, <2>6 DEF FirstOf, RowsOwn
    <2>8. QED
      BY <2>1, <2>3, <2>4, <2>7 DEF Booked, Unheard
  <1>4. CASE Apply(r)
    <2>1. steps[r] = "apply" /\ UNCHANGED <<logs, ledger>> /\ memory'[r] = memory[r]
          /\ \/ steps'[r] = "confirm"
             \/ steps'[r] = "close" /\ Outcome[memory[r].event] # "PAYMENT_SUCCESS"
      BY <1>0, <1>4 DEF Apply
    <2>2. FirstOf(r, logs[r].event)
      BY <1>0, <2>1 DEF Unheard
    <2>3. FirstOf(r, logs[r].event)'
      BY <1>p, <1>l, <2>1, <2>2 DEF FirstOf
    <2>4. Booked(r)'
      BY <1>0, <1>l, <2>1 DEF Booked
    <2>5. QED
      BY <2>1, <2>3, <2>4 DEF Unheard
  <1>5. ASSUME NEW g \in 0..Groups, After(r, g), UNCHANGED <<logs, applied>>,
               steps[r] \in {"confirm", "commission"}, {r} \X (1..g) \subseteq ledger'
        PROVE  Booked(r)' /\ Unheard(r)'
    <2>1. /\ memory'[r] = [memory[r] EXCEPT !.group = g]
          /\ \/ steps'[r] = "close" /\ g = Groups
             \/ steps'[r] = "commission" /\ g # Groups
      BY <1>0, <1>5 DEF After
    <2>2. memory'[r].group = g
      BY <1>0, <2>1, NotedMore
    <2>3. ledger \subseteq ledger'
      BY DEF RowsOwn
    <2>4. Booked(r)'
      BY <1>0, <1>5, <1>l, <2>1, <2>2, <2>3 DEF Booked
    <2>5. r \in applied => FirstOf(r, logs[r].event)
      BY <1>0 DEF Unheard
    <2>6. r \in applied' => FirstOf(r, logs[r].event)'
      BY <1>p, <1>l, <1>5, <2>5 DEF FirstOf
    <2>7. Unheard(r)'
      BY <2>1, <2>6 DEF Unheard
    <2>8. QED
      BY <2>4, <2>7
  <1>6. CASE Confirm(r)
    <2>1. After(r, 0) /\ UNCHANGED <<logs, applied>> /\ steps[r] = "confirm"
      BY <1>6 DEF Confirm
    <2>2. {r} \X (1..0) \subseteq ledger' /\ 0 \in 0..Groups
      BY <1>0
    <2>3. QED
      BY <1>5, <2>1, <2>2
  <1>7. CASE BookCommission(r)
    <2> DEFINE g == memory[r].group
    <2>1. After(r, g + 1) /\ UNCHANGED <<logs, applied>> /\ steps[r] = "commission"
          /\ ledger' = ledger \cup {<<r, g + 1>>}
      BY <1>7 DEF BookCommission
    <2>2. g \in 0..Groups /\ g < Groups /\ {r} \X (1..g) \subseteq ledger
      BY <1>0, <2>1, Fields DEF Booked
    <2> HIDE DEF g
    <2>3. g + 1 \in 0..Groups /\ 1..(g + 1) = (1..g) \cup {g + 1}
      BY <1>0, <2>2
    <2>4. {r} \X (1..(g + 1)) \subseteq ledger'
      BY <2>1, <2>2, <2>3
    <2>5. QED
      BY <1>5, <2>1, <2>3, <2>4
  <1>8. CASE Close(r)
    <2>1. steps[r] = "close" /\ steps'[r] = "done" /\ UNCHANGED <<ledger, applied>>
          /\ logs' = [logs EXCEPT ![r].status = "PROCESSED"]
      BY <1>0, <1>8 DEF Close
    <2>2. r \in Logged /\ logs[r].event = memory[r].event
      BY <1>0, <2>1 DEF Standing, Following
    <2>3. Logged' = Logged /\ logs'[r].event = logs[r].event
      BY <1>0, <2>1, <2>2, MarkedLog DEF Marks
    <2>4. Booked(r)'
      BY <1>0, <2>1, <2>2, <2>3 DEF Booked
    <2>5. r \in applied => FirstOf(r, logs[r].event)
      BY <1>0 DEF Unheard
    <2>6. \A a \in before'[r] : a # r
      BY OwnPast
    <2>7. r \in applied' => FirstOf(r, logs[r].event)'
      BY <1>p, <2>1, <2>3, <2>5, <2>6 DEF FirstOf, RowsOwn
    <2>8. QED
      BY <2>1, <2>4, <2>7 DEF Unheard
  <1>9. CASE BeginCallback(r)
    <2>1. UNCHANGED <<logs, applied>> /\ steps'[r] \in {"record", "done"}
      BY <1>0, <1>9 DEF BeginCallback
    <2>2. QED
      BY <2>1, OwnQuiet
  <1>10. CASE RecordCallback(r)
    <2>1. steps[r] = "record" /\ steps'[r] = "done" /\ applied' = applied
          /\ logs' = With(logs, r, [event |-> memory[r].event, status |-> "VERIFIED"])
      BY <1>0, <1>10 DEF RecordCallback
    <2>2. logs'[r].status = "VERIFIED"
      <3>1. logs'[r] = [event |-> memory[r].event, status |-> "VERIFIED"]
        BY <2>1, LoggedRow
      <3>2. QED
        BY <3>1
    <2>3. r \notin applied
      BY <1>0, <2>1 DEF Standing
    <2>4. QED
      BY <2>1, <2>2, <2>3 DEF Booked, Unheard
  <1>11. CASE BeginRefund(r)
    <2>1. UNCHANGED <<logs, applied>> /\ steps'[r] = "open"
      BY <1>0, <1>11 DEF BeginRefund
    <2>2. QED
      BY <2>1, OwnQuiet
  <1>12. CASE OpenRefund(r)
    <2>1. UNCHANGED <<logs, applied>> /\ steps'[r] \in {"note", "refund", "done"}
      BY <1>0, <1>12 DEF OpenRefund
    <2>2. QED
      BY <2>1, OwnQuiet
  <1>13. CASE WriteRefund(r)
    <2>1. UNCHANGED <<logs, applied>> /\ steps'[r] \in {"note", "done"}
      BY <1>0, <1>13 DEF WriteRefund
    <2>2. QED
      BY <2>1, OwnQuiet
  <1>14. CASE NoteRefund(r)
    <2>1. UNCHANGED <<logs, applied>> /\ steps'[r] = "done"
      BY <1>0, <1>14 DEF NoteRefund
    <2>2. QED
      BY <2>1, OwnQuiet
  <1>15. QED
    BY <1>1, <1>2, <1>3, <1>4, <1>6, <1>7, <1>8, <1>9, <1>10, <1>11, <1>12, <1>13, <1>14 DEF Step

LEMMA InitPayment == Init => PaymentInv
  <1> SUFFICES ASSUME Init
               PROVE  PaymentInv
    OBVIOUS
  <1>1. Refunded = {} /\ Logged = {}
    BY DEF Init, Refunded, Logged
  <1>2. Types
    BY <1>1, Notes DEF Init, Types, Steps
  <1>3. ASSUME NEW r \in Requests
        PROVE  Standing(r) /\ Booked(r) /\ Unheard(r)
    BY <1>1 DEF Init, Standing, Booked, Unheard, FirstOf, Following
  <1>4. QED
    BY <1>2, <1>3 DEF PaymentInv

LEMMA NextPayment ==
    ASSUME PaymentInv, [Next]_paymentVars
    PROVE  PaymentInv'
  <1>1. ASSUME NEW r \in Requests, Step(r)
        PROVE  PaymentInv'
    <2>1. OneMoves(r) /\ RowsOwn(r)
      BY <1>1, StepMoves
    <2>2. Typed(r) /\ Standing(r)' /\ Booked(r)' /\ Unheard(r)'
      BY <1>1, <2>1, OwnTypes, OwnEvents
    <2>3. Types'
      <3>1. Answered \in SUBSET Requests
        BY DEF Answered
      <3>2. /\ steps' \in [Requests -> Steps] /\ memory' \in [Requests -> Memory]
            /\ before' \in [Requests -> SUBSET Requests]
        BY <2>1, <2>2, <3>1 DEF OneMoves, Typed, PaymentInv, Types
      <3>3. /\ Refunded' \subseteq Requests /\ \A q \in Refunded' : refunds'[q].amount \in 1..Captured
        BY <2>1, <2>2 DEF RowsOwn, Typed, PaymentInv, Types
      <3>4. /\ Logged' \subseteq Requests /\ \A l \in Logged' : logs'[l] \in Log
            /\ applied' \subseteq Logged'
        BY <2>1, <2>2 DEF RowsOwn, Typed, PaymentInv, Types
      <3>5. QED
        BY <3>2, <3>3, <3>4 DEF Types
    <2>4. QED
      BY <2>1, <2>2, <2>3, OthersStay DEF PaymentInv
  <1>2. CASE UNCHANGED paymentVars
    BY <1>2 DEF paymentVars, requestVars, PaymentInv, Types, Standing, Booked, Unheard, FirstOf,
                Refunded, Logged, Following
  <1>3. QED
    BY <1>1, <1>2 DEF Next

\* An event acts once: two deliveries of a named event that were both applied overlapped,
\* and a log says PROCESSED only when the commissions of all groups are booked.
THEOREM EventsActOnceAlways == Spec => []EventsActOnce
  <1>1. PaymentInv => EventsActOnce
    <2> SUFFICES ASSUME PaymentInv
                 PROVE  EventsActOnce
      OBVIOUS
    <2>1. ASSUME NEW a \in applied, NEW b \in applied, EventOf(a) = EventOf(b),
                 EventOf(a) \notin Unnamed
          PROVE  a \notin before[b]
      <3>1. a \in Logged /\ b \in Requests
        BY DEF PaymentInv, Types
      <3>2. FirstOf(b, logs[b].event)
        BY <3>1 DEF PaymentInv, Unheard
      <3>3. QED
        BY <2>1, <3>1, <3>2 DEF FirstOf, EventOf
    <2>2. ASSUME NEW l \in Logged, logs[l].status = "PROCESSED",
                 Outcome[EventOf(l)] = "PAYMENT_SUCCESS"
          PROVE  {l} \X (1..Groups) \subseteq ledger
      BY <2>2 DEF PaymentInv, Types, Booked, EventOf
    <2>3. QED
      BY <2>1, <2>2 DEF EventsActOnce, Overlap
  <1>2. QED
    BY <1>1, InitPayment, NextPayment, PTL DEF Spec

-----------------------------------------------------------------------------
(* Refunds stay within the capture, and the status tells them.             *)

\* A part of the refunds returns no more than all of them.
LEMMA SpentGrows ==
    ASSUME Types, NEW S \in SUBSET Refunded
    PROVE  Spent(refunds, S) <= Spent(refunds, Refunded)
  <1> DEFINE w == [q \in Refunded |-> refunds[q].amount]
             v == [q \in S |-> refunds[q].amount]
  <1>1. IsFiniteSet(Refunded) /\ IsFiniteSet(S) /\ \A q \in Refunded : refunds[q].amount \in Nat
    BY FiniteRefunds
  <1>2. \A q \in Refunded : w[q] \in Nat
    BY <1>1
  <1>3. \A q \in S : w[q] = v[q]
    OBVIOUS
  <1>4. Spent(refunds, S) = Total(v, S) /\ Spent(refunds, Refunded) = Total(w, Refunded)
    BY DEF Spent
  <1> HIDE DEF w, v
  <1>5. Total(w, S) = Total(v, S)
    BY <1>1, <1>3, TotalEqual
  <1>6. Total(w, S) <= Total(w, Refunded)
    BY <1>1, <1>2, TotalGrows
  <1>7. QED
    BY <1>4, <1>5, <1>6

\* What was returned before a request began does not change.
LEMMA SpentBefore ==
    ASSUME PaymentInv, NEW r \in Requests, OneMoves(r), RowsOwn(r),
           NEW q \in Requests, steps[q] # "idle"
    PROVE  /\ before'[q] = before[q] /\ r \notin before[q]
           /\ Spent(refunds, before[q] \cap Refunded)' = Spent(refunds, before[q] \cap Refunded)
  <1>0. before \in [Requests -> SUBSET Requests] /\ Standing(q) /\ Types
    BY DEF PaymentInv, Types
  <1>1. before'[q] = before[q] /\ r \notin before[q]
    BY <1>0 DEF OneMoves, Standing
  <1>2. before'[q] \cap Refunded' = before[q] \cap Refunded
    BY <1>1 DEF RowsOwn
  <1>3. \A p \in before[q] \cap Refunded : refunds'[p] = refunds[p]
    BY <1>1 DEF RowsOwn
  <1>4. IsFiniteSet(before[q] \cap Refunded)
    BY <1>0, FiniteRefunds
  <1>5. Spent(refunds', before[q] \cap Refunded) = Spent(refunds, before[q] \cap Refunded)
    BY <1>3, <1>4, SpentStays
  <1>6. QED
    BY <1>1, <1>2, <1>5

LEMMA FitsStays ==
    ASSUME PaymentInv, RefundInv, NEW r \in Requests, Step(r), OneMoves(r), RowsOwn(r),
           NEW q \in Requests
    PROVE  Fits(q)'
  <1> USE DEF Goto, Enter, Advance, Answer
  <1>0. Types /\ steps \in [Requests -> Steps] /\ memory \in [Requests -> Memory]
        /\ memory[r] \in Memory /\ Standing(r) /\ Standing(q) /\ Fits(q)
    BY DEF PaymentInv, RefundInv, Types
  <1>1. CASE q # r
    <2>1. steps'[q] = steps[q] /\ memory'[q] = memory[q]
      BY <1>0, <1>1 DEF OneMoves
    <2>2. (q \in Refunded' => q \in Refunded) /\ (q \in Refunded => refunds'[q] = refunds[q])
      BY <1>1 DEF RowsOwn
    <2>3. CASE steps[q] = "idle"
      BY <1>0, <2>1, <2>2, <2>3 DEF Fits, Standing
    <2>4. CASE steps[q] # "idle"
      BY <1>0, <2>1, <2>2, <2>4, SpentBefore DEF Fits
    <2>5. QED
      BY <2>3, <2>4
  <1>2. CASE q = r /\ BeginRefund(r)
    <2>1. PICK n \in 1..Captured, key \in Keys \cup {None} :
              /\ n <= Refundable
              /\ steps'[r] = "open" /\ memory'[r] = [Blank EXCEPT !.amount = n, !.key = key]
      BY <1>0, <1>2 DEF BeginRefund
    <2>2. memory'[r].amount = n
      BY <2>1, Notes
    <2>3. UNCHANGED refunds /\ steps[r] = "idle" /\ Refunded' = Refunded
      BY <1>2 DEF BeginRefund, Refunded
    <2>4. before'[r] = Answered
      BY <2>3, OwnPast
    <2> DEFINE S == Answered \cap Refunded
    <2>5. S \in SUBSET Refunded
      OBVIOUS
    <2>6. Spent(refunds, S) <= Spent(refunds, Refunded)
      <3> HIDE DEF S
      <3>1. QED
        BY <1>0, <2>5, SpentGrows
    <2>7. Spent(refunds, S) \in Nat /\ Spent(refunds, Refunded) \in Nat
      <3> HIDE DEF S
      <3>1. QED
        BY <1>0, <2>5, FiniteRefunds
    <2>8. n <= Captured - Spent(refunds, Refunded) /\ Captured \in Nat
      BY <1>0, <2>1, SeenIsSpent, PaymentAssumption
    <2>9. Spent(refunds, S) + n <= Captured
      BY <2>6, <2>7, <2>8
    <2>10. Spent(refunds, before[r] \cap Refunded)' = Spent(refunds, S)
      BY <2>3, <2>4
    <2>11. r \notin Refunded'
      BY <1>0, <2>3 DEF Standing
    <2>12. QED
      BY <1>2, <2>2, <2>9, <2>10, <2>11 DEF Fits
  <1>3. CASE q = r /\ OpenRefund(r)
    <2>1. UNCHANGED refunds /\ steps[r] = "open" /\ Refunded' = Refunded
      BY <1>3 DEF OpenRefund, Refunded
    <2>2. \/ steps'[r] \in {"note", "done"}
          \/ steps'[r] = "refund" /\ memory'[r] = [memory[r] EXCEPT !.seen = Captured - Refundable]
      BY <1>0, <1>3 DEF OpenRefund
    <2>3. steps'[r] = "refund" => memory'[r].amount = memory[r].amount
      <3>1. Captured - Refundable \in Int
        BY <1>0, SeenIsSpent
      <3>2. [memory[r] EXCEPT !.seen = Captured - Refundable].amount = memory[r].amount
        BY <1>0, <3>1, NotedMore
      <3>3. QED
        BY <2>2, <3>2
    <2>4. QED
      BY <1>0, <1>3, <2>1, <2>2, <2>3, SpentBefore DEF Fits
  <1>4. CASE q = r /\ WriteRefund(r)
    <2>1. steps[r] = "refund" /\ steps'[r] \in {"note", "done"}
      BY <1>0, <1>4 DEF WriteRefund
    <2>2. \/ UNCHANGED refunds
          \/ refunds' = With(refunds, r, [amount |-> memory[r].amount, key |-> memory[r].key])
      BY <1>4 DEF WriteRefund
    <2>3. r \notin Refunded
      BY <1>0, <2>1 DEF Standing
    <2>4. r \in Refunded' => refunds'[r].amount = memory[r].amount
      <3>1. UNCHANGED refunds => Refunded' = Refunded
        BY DEF Refunded
      <3>2. QED
        BY <2>2, <2>3, <3>1, RefundedRow
    <2>5. QED
      BY <1>0, <1>4, <2>1, <2>4, SpentBefore DEF Fits
  <1>5. ASSUME q = r, UNCHANGED refunds, steps'[r] \notin {"open", "refund"}
        PROVE  Fits(q)'
    <2>1. Refunded' = Refunded
      BY <1>5 DEF Refunded
    <2>2. r \in Refunded => steps[r] # "idle"
      BY <1>0 DEF Standing
    <2>3. QED
      BY <1>0, <1>5, <2>1, <2>2, SpentBefore DEF Fits
  <1>6. Step(r) => \/ BeginRefund(r) \/ OpenRefund(r) \/ WriteRefund(r)
                   \/ UNCHANGED refunds /\ steps'[r] \notin {"open", "refund"}
    BY <1>0 DEF Step, BeginDelivery, LogEvent, Verify, Apply, Confirm, BookCommission, Close, After,
                BeginCallback, RecordCallback, NoteRefund
  <1>7. QED
    BY <1>1, <1>2, <1>3, <1>4, <1>5, <1>6

LEMMA ReadStays ==
    ASSUME PaymentInv, RefundInv, NEW r \in Requests, Step(r), OneMoves(r), RowsOwn(r),
           NEW q \in Requests
    PROVE  Read(q)'
  <1> USE DEF Goto, Enter, Advance, Answer
  <1>0. Types /\ steps \in [Requests -> Steps] /\ memory \in [Requests -> Memory]
        /\ memory[r] \in Memory /\ Read(q)
    BY DEF PaymentInv, RefundInv, Types
  <1>1. CASE q # r
    <2>1. SUFFICES ASSUME steps'[q] = "refund", Refunded' \subseteq before'[q]
                   PROVE  memory'[q].seen = Spent(refunds, Refunded)'
      BY DEF Read
    <2>2. steps[q] = "refund" /\ memory'[q] = memory[q]
      BY <1>0, <1>1, <2>1 DEF OneMoves
    <2>3. before'[q] = before[q] /\ r \notin before[q]
      BY <2>2, SpentBefore
    <2>4. Refunded' = Refunded /\ \A p \in Refunded : refunds'[p] = refunds[p]
      BY <2>1, <2>3 DEF RowsOwn
    <2>5. Spent(refunds', Refunded) = Spent(refunds, Refunded)
      BY <1>0, <2>4, FiniteRefunds, SpentStays
    <2>6. QED
      BY <1>0, <2>1, <2>2, <2>3, <2>4, <2>5 DEF Read
  <1>2. CASE OpenRefund(r)
    <2>1. UNCHANGED refunds /\ Refunded' = Refunded
      BY <1>2 DEF OpenRefund, Refunded
    <2>2. steps'[r] = "refund" => memory'[r] = [memory[r] EXCEPT !.seen = Captured - Refundable]
      BY <1>0, <1>2 DEF OpenRefund
    <2>3. steps'[r] = "refund" => memory'[r].seen = Spent(refunds, Refunded)
      <3>1. Captured - Refundable \in Int /\ Captured - Refundable = Spent(refunds, Refunded)
        BY <1>0, SeenIsSpent
      <3>2. [memory[r] EXCEPT !.seen = Captured - Refundable].seen = Captured - Refundable
        BY <1>0, <3>1, NotedMore
      <3>3. QED
        BY <2>2, <3>1, <3>2
    <2>4. QED
      BY <1>1, <2>1, <2>3 DEF Read
  <1>3. Step(r) => OpenRefund(r) \/ steps'[r] # "refund"
    BY <1>0 DEF Step, BeginDelivery, LogEvent, Verify, Apply, Confirm, BookCommission, Close, After,
                BeginCallback, RecordCallback, BeginRefund, WriteRefund, NoteRefund
  <1>4. QED
    BY <1>1, <1>2, <1>3 DEF Read

LEMMA StatusStays ==
    ASSUME PaymentInv, RefundInv, NEW r \in Requests, Step(r), OneMoves(r), RowsOwn(r), InTurn'
    PROVE  (status = StatusOf(Spent(refunds, Refunded)))'
  <1> USE DEF Goto, Enter, Advance, Answer
  <1>0. Types /\ steps \in [Requests -> Steps] /\ memory \in [Requests -> Memory]
        /\ before \in [Requests -> SUBSET Requests] /\ Refunded \subseteq Requests
        /\ memory[r] \in Memory /\ Standing(r) /\ Fits(r) /\ Read(r)
    BY DEF PaymentInv, RefundInv, Types
  <1>1. ASSUME NEW q \in Refunded
        PROVE  q \in Requests /\ before'[q] = before[q] /\ r \notin before[q]
    <2>1. q \in Requests /\ Standing(q)
      BY <1>0 DEF PaymentInv
    <2>2. steps[q] # "idle"
      BY <2>1 DEF Standing
    <2>3. QED
      BY <2>1, <2>2, SpentBefore
  <1>2. CASE UNCHANGED <<status, refunds, applied>>
    <2>1. Refunded' = Refunded
      BY <1>2 DEF Refunded
    <2>2. InTurn
      BY <1>1, <1>2, <2>1 DEF InTurn, Overlap
    <2>3. status = StatusOf(Spent(refunds, Refunded))
      BY <2>2 DEF RefundInv
    <2>4. QED
      BY <1>2, <2>1, <2>3
  <1>3. CASE Apply(r)
    <2>1. r \in applied' /\ Refunded' = Refunded
      BY <1>3 DEF Apply, Refunded
    <2>2. PICK q \in Refunded : r \in before'[q]
      BY <2>1 DEF InTurn
    <2>3. QED
      BY <1>1, <2>2
  <1>4. CASE WriteRefund(r)
    <2> DEFINE row == [amount |-> memory[r].amount, key |-> memory[r].key]
    <2>1. CASE KeyUsed(memory[r].key)
      BY <1>2, <1>4, <2>1 DEF WriteRefund
    <2>2. CASE ~KeyUsed(memory[r].key)
      <3>1. /\ refunds' = With(refunds, r, row) /\ steps[r] = "refund"
            /\ status' = StatusAfter(memory[r].seen + memory[r].amount)
        BY <1>4, <2>2 DEF WriteRefund
      <3>2. /\ Refunded' = Refunded \cup {r} /\ refunds'[r] = row
            /\ \A q \in Refunded \ {r} : refunds'[q] = refunds[q]
        <4> HIDE DEF row
        <4>1. QED
          BY <3>1, RefundedRow
      <3>3. r \notin Refunded /\ refunds'[r].amount = memory[r].amount /\ memory[r].amount \in 1..Captured
        BY <1>0, <3>1, <3>2 DEF Standing
      <3>4. before'[r] = before[r]
        BY <3>1, SpentBefore
      <3>5. Refunded \subseteq before[r]
        <4>1. ASSUME NEW q \in Refunded
              PROVE  q \in before[r]
          <5>1. q \in Refunded' /\ r \in Refunded' /\ q # r
            BY <3>2, <3>3
          <5>2. r \in before'[q] \/ q \in before'[r]
            BY <5>1 DEF InTurn, Overlap
          <5>3. QED
            BY <1>1, <3>4, <5>2
        <4>2. QED
          BY <4>1
      <3> DEFINE total == Spent(refunds, Refunded)
      <3>6. memory[r].seen = total
        BY <1>0, <3>1, <3>5 DEF Read
      <3>7. total + memory[r].amount <= Captured
        <4>1. before[r] \cap Refunded = Refunded
          BY <3>5
        <4>2. QED
          BY <1>0, <3>1, <4>1 DEF Fits
      <3>8. Spent(refunds', Refunded \cup {r}) = total + memory[r].amount
        <4>1. \A q \in Refunded : refunds'[q] = refunds[q] /\ refunds[q].amount \in Nat
          BY <1>0, <3>2, <3>3, FiniteRefunds
        <4>2. \A q \in Refunded \cup {r} : refunds'[q].amount \in Int
          BY <3>3, <4>1, PaymentAssumption
        <4>3. IsFiniteSet(Refunded)
          BY <1>0, FiniteRefunds
        <4>4. Spent(refunds', Refunded) = total
          BY <4>1, <4>3, SpentStays
        <4>5. Spent(refunds', Refunded \cup {r}) = Spent(refunds', Refunded) + refunds'[r].amount
          BY <3>3, <4>2, <4>3, SpentAdds
        <4>6. QED
          BY <3>3, <4>4, <4>5
      <3>9. total \in Nat /\ Captured \in Nat /\ memory[r].amount \in Nat
        <4>1. Refunded \in SUBSET Refunded
          OBVIOUS
        <4>2. QED
          BY <1>0, <3>3, <4>1, FiniteRefunds, PaymentAssumption
      <3> HIDE DEF total
      <3>10. StatusAfter(total + memory[r].amount) = StatusOf(total + memory[r].amount)
        BY <3>7, <3>9 DEF StatusAfter, StatusOf
      <3>11. QED
        BY <3>1, <3>2, <3>6, <3>8, <3>10
    <2>3. QED
      BY <2>1, <2>2
  <1>5. Step(r) => Apply(r) \/ WriteRefund(r) \/ UNCHANGED <<status, refunds, applied>>
    BY DEF Step, BeginDelivery, LogEvent, Verify, Confirm, BookCommission, Close,
           BeginCallback, RecordCallback, BeginRefund, OpenRefund, NoteRefund
  <1>6. QED
    BY <1>2, <1>3, <1>4, <1>5

LEMMA Refunds == Spec => [](PaymentInv /\ RefundInv)
  <1>1. Init => RefundInv
    <2> SUFFICES ASSUME Init
                 PROVE  RefundInv
      OBVIOUS
    <2>1. Refunded = {}
      BY DEF Init, Refunded
    <2>2. QED
      BY <2>1 DEF Init, RefundInv, Fits, Read, InTurn
  <1>2. ASSUME PaymentInv, RefundInv, [Next]_paymentVars
        PROVE  RefundInv'
    <2>1. ASSUME NEW r \in Requests, Step(r)
          PROVE  RefundInv'
      <3>1. OneMoves(r) /\ RowsOwn(r)
        BY <1>2, <2>1, StepMoves
      <3>2. \A q \in Requests : Fits(q)' /\ Read(q)'
        BY <1>2, <2>1, <3>1, FitsStays, ReadStays
      <3>3. InTurn' => (status = StatusOf(Spent(refunds, Refunded)))'
        BY <1>2, <2>1, <3>1, StatusStays
      <3>4. QED
        BY <3>2, <3>3 DEF RefundInv
    <2>2. CASE UNCHANGED paymentVars
      <3>1. Refunded' = Refunded
        BY <2>2 DEF Refunded, paymentVars
      <3>2. QED
        BY <1>2, <2>2, <3>1 DEF paymentVars, requestVars, RefundInv, Fits, Read, InTurn, Overlap
    <2>3. QED
      BY <1>2, <2>1, <2>2 DEF Next
  <1>3. QED
    BY <1>1, <1>2, InitPayment, NextPayment, PTL DEF Spec

\* A refund and all those that were answered before it was asked for never return more
\* than was captured: only refunds that overlapped do.
THEOREM RefundsFit == Spec => []RefundsStayWithinCapture
  <1>1. PaymentInv /\ RefundInv => RefundsStayWithinCapture
    <2> SUFFICES ASSUME PaymentInv, RefundInv, NEW q \in Refunded
                 PROVE  Returned(before[q] \cap Refunded) + refunds[q].amount <= Captured
      BY DEF RefundsStayWithinCapture
    <2>1. Types /\ q \in Requests
      BY DEF PaymentInv, Types
    <2>2. before[q] \cap Refunded \in SUBSET Refunded
      OBVIOUS
    <2>3. Returned(before[q] \cap Refunded) = Spent(refunds, before[q] \cap Refunded)
      BY <2>1, <2>2, FiniteRefunds
    <2>4. QED
      BY <2>1, <2>3 DEF RefundInv, Fits
  <1>2. QED
    BY <1>1, Refunds, PTL

\* The payment's status tells what was refunded when the refunds were made one after the
\* other and after every event that was applied.
THEOREM StatusFollows == Spec => []StatusTellsRefunds
  <1>1. PaymentInv /\ RefundInv => StatusTellsRefunds
    <2> SUFFICES ASSUME PaymentInv, RefundInv, InTurn
                 PROVE  status = IF Returned(Refunded) = Captured THEN "REFUNDED"
                                 ELSE "PARTIALLY_REFUNDED"
      BY DEF StatusTellsRefunds, InTurn
    <2>1. Returned(Refunded) = Spent(refunds, Refunded)
      <3>1. Types /\ Refunded \in SUBSET Refunded
        BY DEF PaymentInv
      <3>2. QED
        BY <3>1, FiniteRefunds
    <2>2. QED
      BY <2>1 DEF RefundInv, StatusOf
  <1>2. QED
    BY <1>1, Refunds, PTL
=============================================================================
