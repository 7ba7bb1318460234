\* One seller and four calls of the courier service, of any kind.
SPECIFICATION CourierSpec
CONSTANTS
    g1 = g1
    i1 = i1
    Groups = {g1}
    Items = {i1}
    GroupOf <- OneSeller
    Keys <- ServiceKeys
    NoKey = NoKey
    Calls = {p1, p2, p3, p4}
    NoShipment = NoShipment
    Operations = {"dispatch", "webhook", "verify", "append", "cancel", "accept"}
    Reported = {"IN_TRANSIT", "DELIVERED"}
    MayFail = TRUE
SYMMETRY Interchangeable
INVARIANTS CourierTypeOK ParcelsTravelOnce DeliveredTogether
PROPERTIES ImplementsOrders
CHECK_DEADLOCK FALSE
