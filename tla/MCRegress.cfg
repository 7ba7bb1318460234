\* An in-house parcel, verified at the door while its seller reports that it travels.
SPECIFICATION CourierSpec
CONSTANTS
    g1 = g1
    i1 = i1
    Groups = {g1}
    Items = {i1}
    GroupOf <- OneSeller
    Keys <- ServiceKeys
    NoKey = NoKey
    Calls = {p1, p2, p3}
    NoShipment = NoShipment
    Operations = {"dispatch", "verify", "append"}
    Reported = {"IN_TRANSIT"}
    MayFail = FALSE
PROPERTIES DeliveredIsFinal
CHECK_DEADLOCK FALSE
