\* Ids are interchangeable; three price levels so that an insertion can fall in the middle.
CONSTANTS
    o1 = o1  o2 = o2  o3 = o3  o4 = o4
    OrderId = {o1, o2, o3, o4}
    SIZE = 3
    Price = {1, 2, 3}
    InvalidPrice = 0
    MaxQty = 3
    NoOrder = NoOrder
SPECIFICATION Spec
SYMMETRY IdSymmetry
INVARIANTS
    TypeOK
    MapMatchesContainers
    PriceSorted
    Uncrossed
    NoEmptyOrders
    WithinArena
    PurgedAreResting
    CallProgress
