\* A release and a sale of two reservations on one balance, no failures.
SPECIFICATION Spec
CONSTANTS
    Requests = {p1, p2}
    Prior = {r0, r1}
    Foreign = {}
    Carts = {c1}
    None = None
    Quantities = {1}
    OpeningStock = 3
    MaxAttempts = 10
    Tolerance = 10
    Operations = {"commit", "release"}
    MayFail = FALSE
INVARIANTS ReservedIsActive
