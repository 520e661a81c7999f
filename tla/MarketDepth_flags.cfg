CONSTANTS
    ByteBase = 2
    Client = {c1}
    MaxDoubled = 1
    MaxOvertakes = 1
    Instruments <- MCInstruments
    Year = 1
    Month = 0
    Day = 1
    Draws <- MCDraws
    SendCap = 1
    RecvCap = 2
    MaxFailures = 1
SPECIFICATION Spec
INVARIANT
    BidsOnCallsAreShown
CHECK_DEADLOCK FALSE
