----------------------------- MODULE MCPayments -----------------------------
(* Instances of Payments for TLC.                                          *)
EXTENDS Payments, TLC

CONSTANTS d1, d2, f1, f2, paid, declined, other

\* A capture, a decline and news of another type.
ThreeOutcomes == (paid :> "PAYMENT_SUCCESS") @@ (declined :> "PAYMENT_FAILED")
                 @@ (other :> "OTHER")

\* Two requests about events and two refunds.
TwoAndTwo ==
    [r \in Requests |-> IF r \in {d1, d2} THEN {"delivery", "callback"} ELSE {"refund"}]

Interchangeable == Permutations({d1, d2}) \cup Permutations({f1, f2})
=============================================================================
