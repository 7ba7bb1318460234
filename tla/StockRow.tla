------------------------------ MODULE StockRow ------------------------------
(***************************************************************************)
(* The arithmetic of one row of stock_balances: the four stored columns,   *)
(* the available units derived from them, the checks atomicUpdate makes on *)
(* the values it is about to write, and the column changes each operation  *)
(* of the inventory service asks for.                                      *)
(***************************************************************************)
EXTENDS Integers

Row   == [onHand : Nat, reserved : Nat, damaged : Nat, quarantined : Nat]
Delta == [onHand : Int, reserved : Int, damaged : Int, quarantined : Int]

\* A row or a change, column by column.
Columns(onHand, reserved, damaged, quarantined) ==
    [onHand |-> onHand, reserved |-> reserved,
     damaged |-> damaged, quarantined |-> quarantined]

Nothing == Columns(0, 0, 0, 0)

\* OnHand - Reserved - Damaged - Quarantined, the quantity the checks compute.
Free(r) == r.onHand - r.reserved - r.damaged - r.quarantined

\* The derived figure every reader of a balance sees: never below zero.
Available(r) == IF Free(r) < 0 THEN 0 ELSE Free(r)

Apply(r, d) == Columns(r.onHand + d.onHand, r.reserved + d.reserved,
                       r.damaged + d.damaged, r.quarantined + d.quarantined)

\* What atomicUpdate insists on before it writes.
Valid(r) ==
    /\ r.onHand >= 0
    /\ r.reserved >= 0
    /\ r.damaged >= 0
    /\ r.quarantined >= 0
    /\ Free(r) >= 0

-----------------------------------------------------------------------------
(* The changes the operations ask for.                                     *)

Magnitude(n) == IF n < 0 THEN 0 - n ELSE n

Received(q) == Columns(q, 0, 0, 0)
Reserved(q) == Columns(0, q, 0, 0)
Freed(q)    == Columns(0, 0 - q, 0, 0)
Sold(q)     == Columns(0 - q, 0 - q, 0, 0)
Shipped(q)  == Columns(0 - q, 0, 0, 0)

\* A count of n units, against the onHand that was read.
Counted(n, onHand) == Columns(n - onHand, 0, 0, 0)

Adjustments == {"ADJUST", "DAMAGE", "WRITE_OFF"}

Adjusted(movementType, n) ==
    CASE movementType = "ADJUST"    -> Columns(n, 0, 0, 0)
      [] movementType = "DAMAGE"    -> Columns(0 - Magnitude(n), 0, Magnitude(n), 0)
      [] movementType = "WRITE_OFF" -> Columns(0, 0, 0 - Magnitude(n), 0)

QuarantineActions == {"QUARANTINE", "RELEASE_TO_AVAILABLE", "RELEASE_TO_DAMAGED"}

Quarantined(action, q) ==
    CASE action = "QUARANTINE"           -> Columns(0, 0, 0, q)
      [] action = "RELEASE_TO_AVAILABLE" -> Columns(0, 0, 0, 0 - q)
      [] action = "RELEASE_TO_DAMAGED"   -> Columns(0 - q, 0, q, 0 - q)

Dispositions == {"QUARANTINE_INSPECTION", "RESTOCK_AVAILABLE", "MARK_DAMAGED"}

Returned(disposition, q) ==
    CASE disposition = "QUARANTINE_INSPECTION" -> Columns(q, 0, 0, q)
      [] disposition = "RESTOCK_AVAILABLE"     -> Columns(q, 0, 0, 0)
      [] disposition = "MARK_DAMAGED"          -> Columns(0, 0, q, 0)

Verdicts == {"PASSED_RESTOCK", "FAILED_DAMAGED", "FAILED_WRITE_OFF"}

Inspected(verdict, q) ==
    CASE verdict = "PASSED_RESTOCK"   -> Columns(0, 0, 0, 0 - q)
      [] verdict = "FAILED_DAMAGED"   -> Columns(0, 0, q, 0 - q)
      [] verdict = "FAILED_WRITE_OFF" -> Columns(0 - q, 0, 0, 0 - q)
=============================================================================
