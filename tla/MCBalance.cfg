\* Two requests, each any operation of the service, against reservation r0 and a
\* balance with room for sales, damage and quarantine.
SPECIFICATION FairSpec
CONSTANTS
    Requests = {p1, p2}
    Prior = {r0}
    Foreign = {f0}
    Carts = {c1}
    None = None
    Quantities = {1, 2}
    OpeningStock = 2
    MaxAttempts = 2
    Tolerance = 1
    Operations = {"reserve", "commit", "release", "compensate", "expire", "receive", "adjust", "quarantine", "intake", "inspect", "restock", "transfer", "count", "thresholds"}
    MayFail = TRUE
INVARIANTS StockNonNegative ReservedConservation ActiveIsBacked
PROPERTIES ImplementsBook RequestsAnswered
