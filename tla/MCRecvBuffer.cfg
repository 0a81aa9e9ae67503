SPECIFICATION Spec
CONSTANTS
    Length = 10
    Limit = 8
    HeaderSize = 2
    Sizes = {2, 3, 5}
    MaxPackets = 5
INVARIANTS
    DataInPlace
    NeverDropped
PROPERTIES
    IsFifoChannel
    AllHanded
CHECK_DEADLOCK FALSE
