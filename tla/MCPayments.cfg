\* A payment of two: two deliveries or callbacks, and two refunds.
SPECIFICATION Spec
CONSTANTS
    d1 = d1
    d2 = d2
    f1 = f1
    f2 = f2
    Requests = {d1, d2, f1, f2}
    Kinds <- TwoAndTwo
    None = None
    Captured = 2
    paid = paid
    declined = declined
    other = other
    Events = {paid, declined, other}
    Outcome <- ThreeOutcomes
    Unnamed = {declined}
    Keys = {k}
    Groups = 2
SYMMETRY Interchangeable
INVARIANTS RefundsStayWithinCapture EventsActOnce StatusTellsRefunds
CHECK_DEADLOCK FALSE
