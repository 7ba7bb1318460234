\* Three sellers and four items; requests carry no idempotency key.
SPECIFICATION Spec
CONSTANTS
    g1 = g1
    g2 = g2
    g3 = g3
    i1 = i1
    i2 = i2
    i3 = i3
    i4 = i4
    Groups = {g1, g2, g3}
    Items = {i1, i2, i3, i4}
    GroupOf <- ThreeSellers
    Keys = {}
    NoKey = NoKey
INVARIANTS TypeOK ItemsFollowGroups ParentMatchesGroups HistoryReplays
PROPERTIES OrderOnlyAdvances
