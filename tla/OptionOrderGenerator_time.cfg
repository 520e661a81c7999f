CONSTANTS
    MidPrice = 3
    SpreadHalfWidth = 2
    AggressorOffset = 1
    MmLotMax = 1
    AggressorLotMax = 2
    CancelEnabled = TRUE
    IdModulus = 4
    SIZE = 2
    OrderId <- MCOrderId
    Price <- MCPrice
    InvalidPrice = 99
    MaxQty = 2
    NoOrder = NoOrder
SPECIFICATION GenSpec
PROPERTIES
    PriceTimePriority
CHECK_DEADLOCK FALSE
