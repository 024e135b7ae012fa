CONSTANTS
    Slots <- MCSlots
    Keys = {k1, k2}
    Platforms = {"ios", "watchos"}
    Requests = {r1, r2}
    MaxId = 2
    k1 = k1
    k2 = k2
    r1 = r1
    r2 = r2
SPECIFICATION Spec
INVARIANT TypeOK
PROPERTY ImplementsUniqueRows
PROPERTY OnlyItsOwnRow
