\* Three requests of the reservation life cycle race on two units, one of them
\* already reserved; any of them may die between two queries.
SPECIFICATION Spec
CONSTANTS
    Requests = {p1, p2, p3}
    Prior = {r0}
    Foreign = {}
    Carts = {c1}
    None = None
    Quantities = {1}
    OpeningStock = 2
    MaxAttempts = 2
    Tolerance = 10
    Operations = {"reserve", "commit", "release", "expire"}
    MayFail = TRUE
SYMMETRY Interchangeable
INVARIANTS TypeOK ReservedConservation ActiveIsBacked
