\* Refinement and liveness, so no symmetry.
CONSTANTS
    o1 = o1  o2 = o2  o3 = o3  o4 = o4
    OrderId = {o1, o2, o3}
    SIZE = 2
    Price = {1, 2, 3}
    InvalidPrice = 0
    MaxQty = 2
    NoOrder = NoOrder
SPECIFICATION Spec
PROPERTIES
    ImplementsEngine
    CallReturns
    CallsAreBounded
