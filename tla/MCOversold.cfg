\* Two buyers and the last available unit: the scenario of the race guarantee proof.
SPECIFICATION Spec
CONSTANTS
    Requests = {p1, p2}
    Prior = {}
    Foreign = {}
    Carts = {c1}
    None = None
    Quantities = {1}
    OpeningStock = 1
    MaxAttempts = 10
    Tolerance = 10
    Operations = {"reserve"}
    MayFail = FALSE
INVARIANTS NeverOversold
